---- MODULE Spec2Model ----
(***************************************************************************)
(* UI2GA: the batch analysis pipeline of App (handleAnalyze and the        *)
(* handlers that share its state) together with analyzeImage and           *)
(* parseGeminiResponse of services/geminiService.ts.                       *)
(*                                                                         *)
(* The browser runs one handler at a time.  A handler, and the chain of    *)
(* promise continuations (microtasks) it leaves behind, runs to its next   *)
(* suspension point before any other event is delivered.  The suspension   *)
(* points are the FileReader loads of an upload and the generateContent    *)
(* call of analyzeImage.  Every invocation of handleAnalyze that gets past *)
(* its guards is a loop of its own, with its own closure (ac, targets,     *)
(* processedIds); the component state and the analysisController ref are   *)
(* shared by all of them.                                                  *)
(***************************************************************************)
EXTENDS Integers, Sequences, FiniteSets, TLC

\* ---------------------------------------------------------------- bounds
\* Screenshots in the list plus files still being read.
MaxDocs == 2
\* handleAnalyze loops that have not reached their finally block.
MaxLoops == 2
\* Uploads whose FileReaders have not all loaded.
MaxReading == 1

\* Zoom, pan and resize steps on the views in one behaviour (each multiplies
\* or shifts the numbers of a view).
MaxGestures == 2

\* Events, and annotations, in the result of one screenshot.
MaxRows == 3

\* ------------------------------------------------------------- constants
\* null, for activeScreenshotId and currentAnalyzingId (ids are 1, 2, ...:
\* the n of the sequential id "A000n").
NoId == 0
\* null, for analysisController.current (a controller is named by its loop).
NoController == 0

Ids == 1..MaxDocs
LoopIds == 1..MaxLoops

VARIABLES
    screenshots,          \* Screenshot[]: the ids, in list order
    activeScreenshotId,
    selectedIds,
    selections,           \* Record<id, SelectionRect>
    results,              \* Record<id, ScreenAnalysis>
    screenContexts,       \* Record<id, ProjectContext>
    viewStates,           \* Record<id, ViewState>
    isAnalyzing,
    currentAnalyzingId,
    canceledIds,
    analysisFeedback,     \* <<>> (null) or <<completed, total>>
    error,                \* "none" (null) or the run-level message
    analysisController,   \* analysisController.current
    loops,                \* the closures of the handleAnalyze invocations
    reading,              \* uploads whose files are still being read
    apiKey,               \* whether process.env.API_KEY is set
    \* ImageWorkspace, the component that shows the active screenshot
    zoom,
    offset,               \* [x, y]
    container,            \* clientWidth and clientHeight of the canvas area
    prevContainerSize,    \* prevContainerSize.current
    img,                  \* the <img>: "none", "decoding", "complete" (load event due), "loaded"
    isPanning,
    lastMousePos,         \* [x, y]
    gestures,             \* zoom, pan and resize steps so far
    isSelecting,
    startPos,             \* [x, y], normalized, or NoPos (null)
    currentPos,           \* [x, y], normalized, or NoPos (null)
    isSpacePressed,
    isHandToolActive,
    \* AnalysisResult, the component that shows the result of the active screenshot
    jsonError,            \* "none" (null) or the message under the JSON tab
    figmaNotice,          \* "none" (null) or the notice of an import
    \* for each loop, the target of its call if removed from the list since the call
    gone

workspaceVars == <<zoom, offset, container, prevContainerSize, img, isPanning,
                   lastMousePos, gestures>>

\* The state of ImageWorkspace that the rectangle gestures use.
editorVars == <<isSelecting, startPos, currentPos, isSpacePressed, isHandToolActive>>

vars == <<screenshots, activeScreenshotId, selectedIds, selections, results,
          screenContexts, viewStates, isAnalyzing, currentAnalyzingId,
          canceledIds, analysisFeedback, error, analysisController, loops, gone,
          reading, apiKey, workspaceVars, editorVars, jsonError, figmaNotice>>

\* ----------------------------------------------------------------- helpers
Range(s) == {s[i] : i \in DOMAIN s}

\* arr.filter(pred), for a predicate given as the set of values it accepts.
RECURSIVE Filter(_, _)
Filter(s, keep) ==
    IF s = <<>> THEN <<>>
    ELSE LET rest == Filter(Tail(s), keep)
         IN  IF Head(s) \in keep THEN <<Head(s)>> \o rest ELSE rest

\* { ...prev }; delete next[id]
Without(f, id) == [k \in DOMAIN f \ {id} |-> f[k]]

\* { ...prev, [id]: v }
With(f, id, v) == [k \in DOMAIN f \cup {id} |-> IF k = id THEN v ELSE f[k]]

EmptyRecord == [k \in {} |-> 0]

DefaultContext == [customRules |-> "", existingTags |-> ""]

\* A slot of loops that holds no running invocation.
FreeLoop ==
    [active |-> FALSE, targets |-> <<>>, idx |-> 0, processedIds |-> {},
     aborted |-> FALSE, call |-> "none"]

\* The status dot of a list entry.
Status(id) ==
    IF currentAnalyzingId = id THEN "in-flight"
    ELSE IF id \in canceledIds THEN "canceled-or-failed"
    ELSE IF id \in DOMAIN results THEN "completed"
    ELSE "pending"

\* ----------------------------------------------------------------- numbers
\* The numbers of the viewport arithmetic: the rationals, exactly (n / d in
\* lowest terms, d > 0), and the three values a division by zero produces:
\* Infinity (1 / 0), -Infinity (-1 / 0) and NaN (0 / 0).
RECURSIVE GCD(_, _)
GCD(a, b) == IF b = 0 THEN a ELSE GCD(b, a % b)

Abs(i) == IF i < 0 THEN -i ELSE i

Sign(i) == IF i < 0 THEN -1 ELSE IF i = 0 THEN 0 ELSE 1

Num(n, d) ==
    IF d = 0 THEN [n |-> Sign(n), d |-> 0]
    ELSE LET g == GCD(Abs(n), Abs(d))
         IN  [n |-> Sign(d) * (n \div g), d |-> Abs(d) \div g]

Whole(i) == [n |-> i, d |-> 1]

NaN == [n |-> 0, d |-> 0]

IsNaN(a) == a.d = 0 /\ a.n = 0

IsFinite(a) == a.d # 0

Neg(a) == [n |-> -a.n, d |-> a.d]

\* a + b
Add(a, b) ==
    IF IsNaN(a) \/ IsNaN(b) THEN NaN
    ELSE IF ~IsFinite(a) /\ ~IsFinite(b) THEN (IF a.n = b.n THEN a ELSE NaN)
    ELSE IF ~IsFinite(a) THEN a
    ELSE IF ~IsFinite(b) THEN b
    ELSE LET g == GCD(a.d, b.d)
         IN  Num(a.n * (b.d \div g) + b.n * (a.d \div g), (a.d \div g) * b.d)

\* a - b
Sub(a, b) == Add(a, Neg(b))

\* a * b
Mul(a, b) ==
    IF ~IsFinite(a) \/ ~IsFinite(b) THEN Num(a.n * b.n, 0)
    ELSE LET g1 == GCD(Abs(a.n), b.d)
             g2 == GCD(Abs(b.n), a.d)
         IN  Num((a.n \div g1) * (b.n \div g2), (a.d \div g2) * (b.d \div g1))

\* 1 / a
Inv(a) ==
    IF ~IsFinite(a) THEN (IF IsNaN(a) THEN NaN ELSE Whole(0))
    ELSE IF a.n = 0 THEN [n |-> 1, d |-> 0]
    ELSE Num(a.d, a.n)

\* a / b
Div(a, b) == Mul(a, Inv(b))

\* a < b
Lt(a, b) ==
    /\ ~IsNaN(a)
    /\ ~IsNaN(b)
    /\ IF ~IsFinite(a) /\ ~IsFinite(b) THEN a.n < b.n
       ELSE a.n * b.d < b.n * a.d

\* a === b
StrictEq(a, b) == ~IsNaN(a) /\ ~IsNaN(b) /\ a = b

\* Math.min(a, b), Math.max(a, b)
MathMin(a, b) == IF IsNaN(a) \/ IsNaN(b) THEN NaN ELSE IF Lt(b, a) THEN b ELSE a

MathMax(a, b) == IF IsNaN(a) \/ IsNaN(b) THEN NaN ELSE IF Lt(a, b) THEN b ELSE a

\* Math.abs(a)
MathAbs(a) == [n |-> Abs(a.n), d |-> a.d]

\* A point, from integer coordinates.
Point(x, y) == [x |-> Whole(x), y |-> Whole(y)]

\* clientWidth and clientHeight, or naturalWidth and naturalHeight.
Size(w, h) == [width |-> w, height |-> h]

\* null, for prevContainerSize.current
NoSize == <<>>

\* null, for startPos and currentPos
NoPos == <<>>

\* ------------------------------------------------- the Analyzer's answers
\* A JSON field that should hold an array: kind is "array", "missing"
\* (undefined) or "other" (a string, an object, ...).
Arr(items) == [kind |-> "array", items |-> items]
Missing == [kind |-> "missing", items |-> <<>>]
NotArray == [kind |-> "other", items |-> <<>>]

\* Array.isArray(v)
IsArray(v) == v.kind = "array"

\* What one call returns on success: one event and its annotation
\* (item_no restarts at 1 for every call).
SomeEvents == <<[item_no |-> 1]>>
SomeAnnotations == <<[item_no |-> 1]>>

Screen(sid, ev, ann) == [screenshot_id |-> sid, events |-> ev, annotations |-> ann]

\* response.text: whether its outermost {...} is valid JSON, and the JSON value.
Text(parses, screens) == [parses |-> parses, screens |-> screens]

\* extractJson: the parsed object, or null (isObject FALSE) when JSON.parse throws.
extractJson(text) ==
    IF text.parses THEN [isObject |-> TRUE, screens |-> text.screens]
    ELSE [isObject |-> FALSE, screens |-> Missing]

\* parseScreens with a fault: a screen whose events or annotations field is no
\* array is dropped instead of being stored with that list empty.
RECURSIVE parseScreensStrict(_, _)
parseScreensStrict(screensLeft, acc) ==
    IF screensLeft = <<>> THEN acc
    ELSE LET screen == Head(screensLeft)
             sid == screen.screenshot_id
             entry == [events |-> screen.events.items,
                       annotations |-> screen.annotations.items]
         IN  parseScreensStrict(Tail(screensLeft),
                          IF /\ sid # NoId
                             /\ IsArray(screen.events)
                             /\ IsArray(screen.annotations)
                          THEN With(acc, sid, entry) ELSE acc)

\* The forEach of parseGeminiResponse: a later screen overwrites an earlier
\* one with the same screenshot_id; a screen without one is skipped.
RECURSIVE parseScreens(_, _)
parseScreens(screensLeft, acc) ==
    IF screensLeft = <<>> THEN acc
    ELSE LET screen == Head(screensLeft)
             sid == screen.screenshot_id
             entry == [events |-> IF IsArray(screen.events)
                                  THEN screen.events.items ELSE <<>>,
                       annotations |-> IF IsArray(screen.annotations)
                                       THEN screen.annotations.items ELSE <<>>]
         IN  parseScreens(Tail(screensLeft),
                          IF sid # NoId THEN With(acc, sid, entry) ELSE acc)

parseGeminiResponse(text) ==
    LET extracted == extractJson(text)
    IN  IF extracted.isObject /\ IsArray(extracted.screens)
        THEN parseScreens(extracted.screens.items, EmptyRecord)
        ELSE EmptyRecord

\* An id other than the target's (a screenshot_id the model made up).
OtherId(target) == IF target = 1 THEN 2 ELSE 1

\* The texts generateContent may resolve with for a call on `target`.
Texts(target) ==
    { Text(FALSE, Missing),
      Text(TRUE, Missing),
      Text(TRUE, NotArray),
      Text(TRUE, Arr(<<Screen(target, Arr(SomeEvents), Arr(SomeAnnotations))>>)),
      Text(TRUE, Arr(<<Screen(target, Arr(SomeEvents), Missing)>>)),
      Text(TRUE, Arr(<<Screen(target, Arr(SomeEvents), NotArray)>>)),
      Text(TRUE, Arr(<<Screen(NoId, Arr(SomeEvents), Arr(SomeAnnotations))>>)),
      Text(TRUE, Arr(<<Screen(OtherId(target), Arr(SomeEvents), Arr(SomeAnnotations))>>)) }

\* How the promise of generateContent settles: it resolves with a text, or
\* rejects (reason "entity": the API's "Requested entity was not found";
\* "other": any other network or API error).
Settlements(target) ==
    {[how |-> "resolve", text |-> t, reason |-> ""] : t \in Texts(target)}
        \cup {[how |-> "reject", text |-> Text(FALSE, Missing), reason |-> r] :
                r \in {"entity", "other"}}

\* analyzeImage up to its await: without a key it throws MISSING_API_KEY (its
\* promise is rejected before the caller suspends); with one, generateContent
\* is called and the call is in flight.
analyzeImageCall == IF apiKey THEN "inflight" ELSE "rejected"

\* new Error(message): its name is "Error".
Throw(m) == [threw |-> TRUE, name |-> "Error", message |-> m, results |-> EmptyRecord]

\* analyzeImage from the settlement of generateContent on: what the awaiting
\* handleAnalyze receives.
analyzeImage(settlement, signalAborted) ==
    IF settlement.how = "resolve"
    THEN IF signalAborted
         THEN Throw("AbortError")
         ELSE [threw |-> FALSE, name |-> "", message |-> "",
               results |-> parseGeminiResponse(settlement.text)]
    ELSE IF settlement.reason = "entity" THEN Throw("ENTITY_NOT_FOUND")
    ELSE IF signalAborted THEN Throw("AbortError")
    ELSE Throw("failed")

\* ------------------------------------------------------------------- Init
Init ==
    /\ screenshots = <<>>
    /\ activeScreenshotId = NoId
    /\ selectedIds = {}
    /\ selections = EmptyRecord
    /\ results = EmptyRecord
    /\ screenContexts = EmptyRecord
    /\ viewStates = EmptyRecord
    /\ isAnalyzing = FALSE
    /\ currentAnalyzingId = NoId
    /\ canceledIds = {}
    /\ analysisFeedback = <<>>
    /\ error = "none"
    /\ analysisController = NoController
    /\ loops = [l \in LoopIds |-> FreeLoop]
    /\ reading = <<>>
    /\ apiKey \in BOOLEAN
    /\ zoom = Whole(1)
    /\ offset = Point(0, 0)
    /\ container = Size(164, 164)
    /\ prevContainerSize = NoSize
    /\ img = "none"
    /\ isPanning = FALSE
    /\ lastMousePos = Point(0, 0)
    /\ gestures = 0
    /\ isSelecting = FALSE
    /\ startPos = NoPos
    /\ currentPos = NoPos
    /\ isSpacePressed = FALSE
    /\ isHandToolActive = FALSE
    /\ jsonError = "none"
    /\ figmaNotice = "none"
    /\ gone = [l \in LoopIds |-> {}]

\* The loops whose generateContent call has not settled.
InFlight == {l \in LoopIds : loops[l].call = "inflight"}

\* A continuation of some loop is queued as a microtask: it runs before any
\* other event is delivered.
MicrotaskPending == \E l \in LoopIds : loops[l].call = "rejected"

\* ----------------------------------------------------------- ingestion
\* handleImagesSelected(files), n files: the ids are computed from the length
\* of the list at the time of the call, the list grows when all files loaded.
handleImagesSelected(n) ==
    /\ ~MicrotaskPending
    /\ Len(reading) < MaxReading
    /\ Len(screenshots) + n <= MaxDocs
    /\ LET startCount == Len(screenshots)
       IN  reading' = Append(reading, [index \in 1..n |-> startCount + index])
    /\ UNCHANGED <<screenshots, activeScreenshotId, selectedIds, selections,
                   results, screenContexts, viewStates, isAnalyzing,
                   currentAnalyzingId, canceledIds, analysisFeedback, error,
                   analysisController, loops, gone, apiKey, workspaceVars, editorVars, jsonError>>

\* processNewScreenshots(newItems)
processNewScreenshots(newItems) ==
    /\ screenshots' = screenshots \o newItems
    /\ IF Len(screenshots) = 0 /\ Len(newItems) > 0
       THEN /\ activeScreenshotId' = newItems[1]
            /\ selectedIds' = {newItems[1]}
       ELSE UNCHANGED <<activeScreenshotId, selectedIds>>
    /\ screenContexts' =
         [id \in DOMAIN screenContexts \cup Range(newItems) |->
            IF id \in DOMAIN screenContexts THEN screenContexts[id]
            ELSE DefaultContext]

\* Promise.all(newScreenshotPromises).then(...) of the i-th upload being read.
FilesLoaded(i) ==
    /\ ~MicrotaskPending
    /\ i \in DOMAIN reading
    /\ Len(screenshots) + Len(reading[i]) <= MaxDocs
    /\ processNewScreenshots(reading[i])
    /\ reading' = SubSeq(reading, 1, i - 1) \o SubSeq(reading, i + 1, Len(reading))
    /\ UNCHANGED <<selections, results, viewStates, isAnalyzing,
                   currentAnalyzingId, canceledIds, analysisFeedback, error,
                   analysisController, loops, gone, apiKey, workspaceVars, editorVars, jsonError, figmaNotice>>

\* ------------------------------------------------------- list handlers
toggleSelection(id) ==
    /\ ~MicrotaskPending
    /\ id \in Range(screenshots)
    /\ selectedIds' = IF id \in selectedIds THEN selectedIds \ {id}
                      ELSE selectedIds \cup {id}
    /\ UNCHANGED <<screenshots, activeScreenshotId, selections, results,
                   screenContexts, viewStates, isAnalyzing, currentAnalyzingId,
                   canceledIds, analysisFeedback, error, analysisController,
                   loops, gone, reading, apiKey, workspaceVars, editorVars, jsonError, figmaNotice>>

toggleSelectAll ==
    /\ ~MicrotaskPending
    /\ screenshots # <<>>
    /\ selectedIds' = IF Cardinality(selectedIds) = Len(screenshots) THEN {}
                      ELSE Range(screenshots)
    /\ UNCHANGED <<screenshots, activeScreenshotId, selections, results,
                   screenContexts, viewStates, isAnalyzing, currentAnalyzingId,
                   canceledIds, analysisFeedback, error, analysisController,
                   loops, gone, reading, apiKey, workspaceVars, editorVars, jsonError, figmaNotice>>

\* The closure of a running loop keeps the Screenshot object its call was
\* issued for; `gone` records, for each loop, whether that object has left
\* the list since.  This is `gone` once the screenshots `ids` have been
\* removed from the list.  confirmReset and handleDeleteScreenshot, which
\* do not look at the loops, leave what becomes of `gone` to the
\* specification: Spec keeps it empty, ReuseSpec keeps the record.
Removed(ids) ==
    [l \in LoopIds |->
        IF loops[l].active
        THEN gone[l] \cup (ids \cap {loops[l].targets[loops[l].idx]})
        ELSE gone[l]]

confirmReset ==
    /\ ~MicrotaskPending
    /\ screenshots # <<>>
    /\ screenshots' = <<>>
    /\ activeScreenshotId' = NoId
    /\ selectedIds' = {}
    /\ results' = EmptyRecord
    /\ selections' = EmptyRecord
    /\ screenContexts' = EmptyRecord
    /\ viewStates' = EmptyRecord
    /\ canceledIds' = {}
    /\ error' = "none"
    /\ isAnalyzing' = FALSE
    /\ analysisFeedback' = <<>>
    /\ UNCHANGED <<currentAnalyzingId, analysisController, loops, reading, apiKey, workspaceVars, editorVars, jsonError, figmaNotice>>

handleDeleteScreenshot(id) ==
    /\ ~MicrotaskPending
    /\ id \in Range(screenshots)
    /\ screenshots' = Filter(screenshots, Ids \ {id})
    /\ results' = Without(results, id)
    /\ screenContexts' = Without(screenContexts, id)
    /\ viewStates' = Without(viewStates, id)
    /\ selections' = Without(selections, id)
    /\ selectedIds' = selectedIds \ {id}
    /\ canceledIds' = canceledIds \ {id}
    /\ activeScreenshotId' = IF activeScreenshotId = id THEN NoId
                             ELSE activeScreenshotId
    /\ UNCHANGED <<isAnalyzing, currentAnalyzingId, analysisFeedback, error,
                   analysisController, loops, reading, apiKey, workspaceVars, editorVars, jsonError, figmaNotice>>

\* ------------------------------------------------------- handleAnalyze
\* The slot a new invocation's closure is kept in.
FreeSlot == CHOOSE l \in LoopIds : ~loops[l].active /\ \A m \in 1..(l - 1) : loops[m].active

\* analysisController.current?.signal.aborted
ControllerAborted ==
    analysisController # NoController /\ loops[analysisController].aborted

\* Finally with a fault: the summary counts the targets attempted, not the
\* targets completed.
FinallyCountingAttempts(l, processed) ==
    LET targets == loops[l].targets
    IN  /\ isAnalyzing' = FALSE
        /\ currentAnalyzingId' = NoId
        /\ IF ControllerAborted
           THEN /\ canceledIds' = canceledIds \cup (Range(targets) \ processed)
                /\ analysisFeedback' = <<loops[l].idx, Len(targets)>>
           ELSE UNCHANGED <<canceledIds, analysisFeedback>>
        /\ analysisController' = NoController
        /\ loops' = [loops EXCEPT ![l] = FreeLoop]
        /\ gone' = [gone EXCEPT ![l] = {}]

\* The finally block of loop l, whose processedIds is `processed`.
Finally(l, processed) ==
    LET targets == loops[l].targets
    IN  /\ isAnalyzing' = FALSE
        /\ currentAnalyzingId' = NoId
        /\ IF ControllerAborted
           THEN /\ canceledIds' = canceledIds \cup (Range(targets) \ processed)
                /\ analysisFeedback' = <<Cardinality(processed), Len(targets)>>
           ELSE UNCHANGED <<canceledIds, analysisFeedback>>
        /\ analysisController' = NoController
        /\ loops' = [loops EXCEPT ![l] = FreeLoop]
        /\ gone' = [gone EXCEPT ![l] = {}]

\* NextIteration with a fault: the loop calls the Analyzer for the same
\* target again instead of moving to the next one.
NextIterationRetrying(l, processed, aborted) ==
    LET loop == loops[l]
    IN  IF loop.idx < Len(loop.targets) /\ ~aborted
        THEN /\ currentAnalyzingId' = loop.targets[loop.idx]
             /\ loops' = [loops EXCEPT ![l] =
                            [loop EXCEPT !.processedIds = processed,
                                         !.call = analyzeImageCall]]
             /\ gone' = [gone EXCEPT ![l] = {}]
             /\ UNCHANGED <<isAnalyzing, canceledIds, analysisFeedback,
                            analysisController>>
        ELSE Finally(l, processed)

\* The end of one iteration of loop l that did not break or throw:
\* setCurrentAnalyzingId(null), then the next iteration up to its await, or
\* the finally block when the targets are exhausted.  `aborted` is what the
\* loop reads as ac.signal.aborted.
NextIteration(l, processed, aborted) ==
    LET loop == loops[l]
    IN  IF loop.idx < Len(loop.targets) /\ ~aborted
        THEN /\ currentAnalyzingId' = loop.targets[loop.idx + 1]
             /\ loops' = [loops EXCEPT ![l] =
                            [loop EXCEPT !.idx = loop.idx + 1,
                                         !.processedIds = processed,
                                         !.call = analyzeImageCall]]
             /\ gone' = [gone EXCEPT ![l] = {}]
             /\ UNCHANGED <<isAnalyzing, canceledIds, analysisFeedback,
                            analysisController>>
        ELSE Finally(l, processed)

\* handleAnalyze while isAnalyzing: the button is the stop button.
abortController ==
    /\ loops' = IF analysisController # NoController
                THEN [loops EXCEPT ![analysisController].aborted = TRUE]
                ELSE loops
    /\ UNCHANGED <<isAnalyzing, currentAnalyzingId, canceledIds,
                   analysisFeedback, error, analysisController, gone>>

\* startAnalysis with a fault: the canceled marks of the targets are kept.
startAnalysisKeepingCanceled ==
    LET targets == Filter(screenshots, selectedIds)
        ac == FreeSlot
    IN  /\ \E l \in LoopIds : ~loops[l].active
        /\ targets # <<>>
        /\ isAnalyzing' = TRUE
        /\ error' = "none"
        /\ analysisFeedback' = <<>>
        /\ analysisController' = ac
        /\ canceledIds' = canceledIds
        /\ currentAnalyzingId' = targets[1]
        /\ loops' = [loops EXCEPT ![ac] =
                       [active |-> TRUE, targets |-> targets, idx |-> 1,
                        processedIds |-> {}, aborted |-> FALSE,
                        call |-> analyzeImageCall]]
        /\ gone' = [gone EXCEPT ![ac] = {}]

\* handleAnalyze past its guards, up to the first await: the new closure,
\* the reset of the targets' canceled marks, the first iteration's call.
startAnalysis ==
    LET targets == Filter(screenshots, selectedIds)
        ac == FreeSlot
    IN  /\ \E l \in LoopIds : ~loops[l].active
        /\ targets # <<>>
        /\ isAnalyzing' = TRUE
        /\ error' = "none"
        /\ analysisFeedback' = <<>>
        /\ analysisController' = ac
        /\ canceledIds' = canceledIds \ Range(targets)
        /\ currentAnalyzingId' = targets[1]
        /\ loops' = [loops EXCEPT ![ac] =
                       [active |-> TRUE, targets |-> targets, idx |-> 1,
                        processedIds |-> {}, aborted |-> FALSE,
                        call |-> analyzeImageCall]]
        /\ gone' = [gone EXCEPT ![ac] = {}]

\* handleAnalyze with a fault: the isAnalyzing guard is missing, every click
\* with a selection starts a run.
handleAnalyzeUnguarded ==
    /\ ~MicrotaskPending
    /\ IF selectedIds = {}
       THEN UNCHANGED <<isAnalyzing, currentAnalyzingId, canceledIds,
                        analysisFeedback, error, analysisController, loops, gone>>
       ELSE startAnalysis
    /\ UNCHANGED <<screenshots, activeScreenshotId, selectedIds, selections,
                   results, screenContexts, viewStates, reading, apiKey, workspaceVars, editorVars, jsonError, figmaNotice>>

\* A click on the Analyze button (or on "try again"): the handler up to its
\* first await.
handleAnalyze ==
    /\ ~MicrotaskPending
    /\ IF isAnalyzing THEN abortController
       ELSE IF selectedIds = {}
       THEN UNCHANGED <<isAnalyzing, currentAnalyzingId, canceledIds,
                        analysisFeedback, error, analysisController, loops, gone>>
       ELSE startAnalysis
    /\ UNCHANGED <<screenshots, activeScreenshotId, selectedIds, selections,
                   results, screenContexts, viewStates, reading, apiKey, workspaceVars, editorVars, jsonError, figmaNotice>>

\* What one iteration does with what its await received: "break" (leave the
\* loop), "fatal" (rethrow to the outer catch), "failed" (console.error and go
\* on), "store" (write the result, count the target) or "skip" (no entry for
\* the target in the parsed response: nothing is written or counted).
Outcome(response, aborted, target) ==
    IF response.threw
    THEN IF response.name = "AbortError" \/ aborted THEN "break"
         ELSE IF response.message = "MISSING_API_KEY" THEN "fatal"
         ELSE "failed"
    ELSE IF aborted THEN "break"
    ELSE IF target \in DOMAIN response.results THEN "store"
    ELSE "skip"

\* Resume with a fault: a target whose call failed loses the result it had.
ResumeClearingFailed(l, response, aborted) ==
    LET loop == loops[l]
        target == loop.targets[loop.idx]
        outcome == Outcome(response, aborted, target)
    IN  CASE outcome = "break" ->
               /\ Finally(l, loop.processedIds)
               /\ UNCHANGED <<results, error>>
          [] outcome = "fatal" ->
               /\ error' = "API Key is missing"
               /\ Finally(l, loop.processedIds)
               /\ UNCHANGED results
          [] outcome = "failed" ->
               /\ results' = Without(results, target)
               /\ NextIteration(l, loop.processedIds, aborted)
               /\ UNCHANGED error
          [] outcome = "store" ->
               /\ results' = With(results, target, response.results[target])
               /\ NextIteration(l, loop.processedIds \cup {target}, aborted)
               /\ UNCHANGED error
          [] outcome = "skip" ->
               /\ NextIteration(l, loop.processedIds, aborted)
               /\ UNCHANGED <<results, error>>

\* Loop l from its await on, having received `response`; `aborted` is what
\* the loop reads as ac.signal.aborted.
Resume(l, response, aborted) ==
    LET loop == loops[l]
        target == loop.targets[loop.idx]
        outcome == Outcome(response, aborted, target)
    IN  CASE outcome = "break" ->
               /\ Finally(l, loop.processedIds)
               /\ UNCHANGED <<results, error>>
          [] outcome = "fatal" ->
               /\ error' = "API Key is missing"
               /\ Finally(l, loop.processedIds)
               /\ UNCHANGED results
          [] outcome = "failed" ->
               /\ NextIteration(l, loop.processedIds, aborted)
               /\ UNCHANGED <<results, error>>
          [] outcome = "store" ->
               /\ results' = With(results, target, response.results[target])
               /\ NextIteration(l, loop.processedIds \cup {target}, aborted)
               /\ UNCHANGED error
          [] outcome = "skip" ->
               /\ NextIteration(l, loop.processedIds, aborted)
               /\ UNCHANGED <<results, error>>

\* The continuation of loop l after analyzeImage threw MISSING_API_KEY
\* before suspending.
MissingApiKey(l) ==
    /\ loops[l].active
    /\ loops[l].call = "rejected"
    /\ Resume(l, Throw("MISSING_API_KEY"), loops[l].aborted)
    /\ UNCHANGED <<screenshots, activeScreenshotId, selectedIds, selections,
                   screenContexts, viewStates, reading, apiKey, workspaceVars, editorVars, jsonError, figmaNotice>>

\* AnalyzerSettles with a fault: neither the service nor the loop sees the
\* signal of the controller that the stop button aborts.
AnalyzerSettlesBlindToAbort(l, settlement) ==
    /\ ~MicrotaskPending
    /\ loops[l].active
    /\ loops[l].call = "inflight"
    /\ Resume(l, analyzeImage(settlement, FALSE), FALSE)
    /\ UNCHANGED <<screenshots, activeScreenshotId, selectedIds, selections,
                   screenContexts, viewStates, reading, apiKey, workspaceVars, editorVars, jsonError, figmaNotice>>

\* generateContent of loop l settles: the rest of analyzeImage, and
\* handleAnalyze from its await to the next one or to its end.
AnalyzerSettles(l, settlement) ==
    /\ ~MicrotaskPending
    /\ loops[l].active
    /\ loops[l].call = "inflight"
    /\ Resume(l, analyzeImage(settlement, loops[l].aborted), loops[l].aborted)
    /\ UNCHANGED <<screenshots, activeScreenshotId, selectedIds, selections,
                   screenContexts, viewStates, reading, apiKey, workspaceVars, editorVars, jsonError, figmaNotice>>

\* ------------------------------------------------------------------- Next
IngestStep ==
    \/ \E n \in 1..MaxDocs : handleImagesSelected(n) /\ UNCHANGED figmaNotice
    \/ \E i \in 1..MaxReading : FilesLoaded(i)

ListStep ==
    \/ \E id \in Ids : toggleSelection(id)
    \/ toggleSelectAll
    \/ \E id \in Ids : handleDeleteScreenshot(id) /\ UNCHANGED gone
    \/ confirmReset /\ UNCHANGED gone

LoopStep ==
    \/ \E l \in LoopIds : MissingApiKey(l)
    \/ \E l \in InFlight :
         \E settlement \in Settlements(loops[l].targets[loops[l].idx]) :
            AnalyzerSettles(l, settlement)

Next ==
    \/ IngestStep
    \/ ListStep
    \/ handleAnalyze
    \/ LoopStep

Spec == Init /\ [][Next]_vars

\* The same steps, with the record of the targets that left the list while
\* their call was in flight.
ReuseNext ==
    \/ IngestStep
    \/ \E id \in Ids : toggleSelection(id)
    \/ toggleSelectAll
    \/ \E id \in Ids : handleDeleteScreenshot(id) /\ gone' = Removed({id})
    \/ confirmReset /\ gone' = Removed(Range(screenshots))
    \/ handleAnalyze
    \/ LoopStep

ReuseSpec == Init /\ [][ReuseNext]_vars

TypeOK ==
    /\ Range(screenshots) \subseteq Ids
    /\ selectedIds \subseteq Ids
    /\ isAnalyzing \in BOOLEAN
    /\ currentAnalyzingId \in Ids \cup {NoId}
    /\ analysisController \in LoopIds \cup {NoController}
    /\ \A l \in LoopIds : loops[l].active =>
          /\ loops[l].idx \in 1..Len(loops[l].targets)
          /\ loops[l].call \in {"inflight", "rejected"}

\* -------------------------------------------------------- ImageWorkspace
\* App renders <ImageWorkspace key={activeImage.id} .../> for the active
\* screenshot: selecting another screenshot unmounts the component and mounts
\* a new one, whose <img> decodes its data URL and then fires its load event.
\* ViewSpec below drives this component alone: two screenshots are loaded and
\* the batch pipeline stays idle.

\* const padding = 64
padding == 64

\* The sizes the canvas area takes.
ContainerSizes == {Size(64, 164), Size(164, 164), Size(264, 214)}

\* naturalWidth and naturalHeight of the decoded image of a screenshot.
naturalSize(id) == IF id = 1 THEN Size(100, 100) ELSE Size(4000, 100)

\* Where the pointer is, relative to the canvas area (whose top left corner
\* is the origin of the client coordinates).
Cursors == {Point(32, 82), Point(100, 50)}

\* The factors of the wheel: e.deltaY < 0 ? 1.05 : 0.95
WheelFactors == {Num(21, 20), Num(19, 20)}

\* The state App keeps apart from the view states and the active id.
appVars == <<screenshots, selectedIds, selections, results, screenContexts,
             isAnalyzing, currentAnalyzingId, canceledIds, analysisFeedback,
             error, analysisController, loops, gone, reading, apiKey>>

\* ImageWorkspace is rendered: activeImage is found.
Mounted == activeScreenshotId \in Range(screenshots)

\* The savedViewState prop: activeViewState of App.
HasSavedViewState == activeScreenshotId \in DOMAIN viewStates

savedViewState == viewStates[activeScreenshotId]

\* savedViewState?.manual
savedManual == IF HasSavedViewState THEN savedViewState.manual ELSE "undefined"

ViewState(z, o, manual) == [zoom |-> z, offset |-> o, manual |-> manual]

\* handleViewStateChange of App, as a value: the view states after the call.
handleViewStateChange(state) ==
    IF activeScreenshotId # NoId
    THEN With(viewStates, activeScreenshotId, state)
    ELSE viewStates

\* updateViewState(newZoom, newOffset, isManual)
updateViewState(newZoom, newOffset, isManual) ==
    /\ zoom' = newZoom
    /\ offset' = newOffset
    /\ viewStates' = handleViewStateChange(ViewState(newZoom, newOffset, isManual))

\* img.naturalWidth and img.naturalHeight: 0 until the image is decoded.
imgNatural(id, imgState) ==
    IF imgState \in {"complete", "loaded"} THEN naturalSize(id) ELSE Size(0, 0)

\* fitToScreen with a fault: the zoom is not capped at 1.
fitToScreenUncapped(containerSize, imageSize) ==
    LET availableWidth == Whole(containerSize.width - padding)
        availableHeight == Whole(containerSize.height - padding)
        scaleX == Div(availableWidth, Whole(imageSize.width))
        scaleY == Div(availableHeight, Whole(imageSize.height))
        newZoom == MathMin(scaleX, scaleY)
        newOffsetX == Div(Sub(Whole(containerSize.width),
                              Mul(Whole(imageSize.width), newZoom)), Whole(2))
        newOffsetY == Div(Sub(Whole(containerSize.height),
                              Mul(Whole(imageSize.height), newZoom)), Whole(2))
    IN  [zoom |-> newZoom, offset |-> [x |-> newOffsetX, y |-> newOffsetY]]

\* The zoom and offset fitToScreen computes for a container and an image.
fitToScreen(containerSize, imageSize) ==
    LET availableWidth == Whole(containerSize.width - padding)
        availableHeight == Whole(containerSize.height - padding)
        scaleX == Div(availableWidth, Whole(imageSize.width))
        scaleY == Div(availableHeight, Whole(imageSize.height))
        newZoom == MathMin(MathMin(scaleX, scaleY), Whole(1))
        newOffsetX == Div(Sub(Whole(containerSize.width),
                              Mul(Whole(imageSize.width), newZoom)), Whole(2))
        newOffsetY == Div(Sub(Whole(containerSize.height),
                              Mul(Whole(imageSize.height), newZoom)), Whole(2))
    IN  [zoom |-> newZoom, offset |-> [x |-> newOffsetX, y |-> newOffsetY]]

\* A call of fitToScreen for screenshot id whose image is in state imgState.
FitToScreen(id, imgState) ==
    LET fit == fitToScreen(container, imgNatural(id, imgState))
    IN  /\ zoom' = fit.zoom
        /\ offset' = fit.offset
        /\ viewStates' = With(viewStates, id, ViewState(fit.zoom, fit.offset, "false"))

\* One more step on a view.
CountGesture == gestures' = gestures + 1

MayGesture == Mounted /\ gestures < MaxGestures

\* A click on another entry of the screenshot list: setActiveScreenshotId(id),
\* then the mount of the new ImageWorkspace: its state starts from the saved
\* view state (zoom 1 and offset (0, 0) without one), the effect on imageData
\* fits the image if it is already complete and the saved state is absent or
\* not manual, and the ResizeObserver reports the size of the canvas area.
setActiveScreenshotId(id, complete) ==
    LET saved == id \in DOMAIN viewStates
    IN  /\ id \in Range(screenshots)
        /\ id # activeScreenshotId
        /\ activeScreenshotId' = id
        /\ img' = IF complete THEN "complete" ELSE "decoding"
        /\ prevContainerSize' = container
        /\ isPanning' = FALSE
        /\ lastMousePos' = Point(0, 0)
        /\ IF complete /\ (~saved \/ viewStates[id].manual # "true")
           THEN FitToScreen(id, "complete")
           ELSE /\ zoom' = IF saved THEN viewStates[id].zoom ELSE Whole(1)
                /\ offset' = IF saved THEN viewStates[id].offset ELSE Point(0, 0)
                /\ UNCHANGED viewStates
        /\ isSelecting' = FALSE
        /\ startPos' = NoPos
        /\ currentPos' = NoPos
        /\ isSpacePressed' = FALSE
        /\ isHandToolActive' = FALSE
        /\ jsonError' = "none"
        /\ UNCHANGED <<container, gestures, appVars, figmaNotice>>

\* The browser has decoded the image: img.complete, the load event is due.
ImgDecoded ==
    /\ Mounted
    /\ img = "decoding"
    /\ img' = "complete"
    /\ UNCHANGED <<zoom, offset, container, prevContainerSize, isPanning,
                   lastMousePos, gestures, viewStates, activeScreenshotId, appVars, editorVars, jsonError, figmaNotice>>

\* onLoad={fitToScreen}
ImgLoad ==
    /\ Mounted
    /\ img = "complete"
    /\ img' = "loaded"
    /\ FitToScreen(activeScreenshotId, "loaded")
    /\ UNCHANGED <<container, prevContainerSize, isPanning, lastMousePos,
                   gestures, activeScreenshotId, appVars, editorVars, jsonError, figmaNotice>>

\* The "Fit to Screen" button.
FitButton ==
    /\ Mounted
    /\ FitToScreen(activeScreenshotId, img)
    /\ UNCHANGED <<container, prevContainerSize, img, isPanning, lastMousePos,
                   gestures, activeScreenshotId, appVars, editorVars, jsonError, figmaNotice>>

\* Math.min(Math.max(0.05, zoom * factor), 10)
clampZoom(z, factor) ==
    MathMin(MathMax(Num(1, 20), Mul(z, factor)), Whole(10))

\* The zoom and offset handleWheel computes from zoom z and offset o for the
\* pointer at `mouse` and the factor of the wheel's direction.
zoomAt(z, o, mouse, factor) ==
    LET newZoom == clampZoom(z, factor)
        imageX == Div(Sub(mouse.x, o.x), z)
        imageY == Div(Sub(mouse.y, o.y), z)
    IN  [zoom |-> newZoom,
         offset |-> [x |-> Sub(mouse.x, Mul(imageX, newZoom)),
                     y |-> Sub(mouse.y, Mul(imageY, newZoom))]]

handleWheel(mouse, factor) ==
    /\ MayGesture
    /\ IF ~StrictEq(clampZoom(zoom, factor), zoom)
       THEN LET new == zoomAt(zoom, offset, mouse, factor)
            IN  /\ updateViewState(new.zoom, new.offset, "true")
                /\ CountGesture
       ELSE /\ UNCHANGED <<zoom, offset, viewStates>>
            /\ CountGesture
    /\ UNCHANGED <<container, prevContainerSize, img, isPanning, lastMousePos,
                   activeScreenshotId, appVars, editorVars, jsonError, figmaNotice>>

\* The "-" button.
zoomOutButton ==
    /\ MayGesture
    /\ updateViewState(MathMax(Num(1, 20), Mul(zoom, Num(9, 10))), offset, "true")
    /\ CountGesture
    /\ UNCHANGED <<container, prevContainerSize, img, isPanning, lastMousePos,
                   activeScreenshotId, appVars, editorVars, jsonError, figmaNotice>>

\* The "+" button.
zoomInButton ==
    /\ MayGesture
    /\ updateViewState(MathMin(Whole(10), Mul(zoom, Num(11, 10))), offset, "true")
    /\ CountGesture
    /\ UNCHANGED <<container, prevContainerSize, img, isPanning, lastMousePos,
                   activeScreenshotId, appVars, editorVars, jsonError, figmaNotice>>

\* The state App keeps apart from the views, the active id, the pending
\* regions and the results.
listVars == <<screenshots, selectedIds, screenContexts, isAnalyzing,
              currentAnalyzingId, canceledIds, analysisFeedback, error,
              analysisController, loops, gone, reading, apiKey>>

\* Math.min(Math.max(0, x), 1)
clampUnit(x) == MathMin(MathMax(Whole(0), x), Whole(1))

\* getNormalizedCoords for the pointer at `pos`: the <img> has its natural
\* size and is drawn at the offset, scaled by the zoom.
getNormalizedCoords(pos) ==
    LET natural == imgNatural(activeScreenshotId, img)
        rectWidth == Mul(Whole(natural.width), zoom)
        rectHeight == Mul(Whole(natural.height), zoom)
    IN  [x |-> clampUnit(Div(Sub(pos.x, offset.x), rectWidth)),
         y |-> clampUnit(Div(Sub(pos.y, offset.y), rectHeight))]

\* const isAnnotationMode = !!overlayData: the active screenshot has a result.
isAnnotationMode == activeScreenshotId \in DOMAIN results

\* handleSelectionChange of App, as a value: the pending regions after the
\* call (rect = NoPos stands for undefined).
handleSelectionChange(rect) ==
    IF activeScreenshotId = NoId THEN selections
    ELSE IF rect = NoPos THEN Without(selections, activeScreenshotId)
    ELSE With(selections, activeScreenshotId, rect)

\* The result handleAddAnnotation and handleAddRow start from.
currentResult ==
    IF activeScreenshotId \in DOMAIN results
    THEN results[activeScreenshotId]
    ELSE [events |-> <<>>, annotations |-> <<>>]

\* Room for one more event and one more annotation.
MayAddRow ==
    /\ Len(currentResult.events) < MaxRows
    /\ Len(currentResult.annotations) < MaxRows

\* handleAddAnnotation with a fault: no event is made for the annotation.
handleAddAnnotationWithoutEvent(rect) ==
    LET current == currentResult
        newId == Len(current.events) + 1
        newAnn == [item_no |-> newId, label |-> "click_custom", bbox |-> rect]
    IN  IF activeScreenshotId = NoId THEN results
        ELSE With(results, activeScreenshotId,
                  [events |-> current.events,
                   annotations |-> Append(current.annotations, newAnn)])

\* handleAddAnnotation of App, as a value: the results after the call.
handleAddAnnotation(rect) ==
    LET current == currentResult
        newId == Len(current.events) + 1
        newEvent == [item_no |-> newId, event_action |-> "click_custom"]
        newAnn == [item_no |-> newId, label |-> "click_custom", bbox |-> rect]
    IN  IF activeScreenshotId = NoId THEN results
        ELSE With(results, activeScreenshotId,
                  [events |-> Append(current.events, newEvent),
                   annotations |-> Append(current.annotations, newAnn)])

\* handleMouseDown at `pos` with mouse button `button` (1 is the middle one).
handleMouseDown(pos, button) ==
    /\ Mounted
    /\ IF isSpacePressed \/ isHandToolActive \/ button = 1
       THEN /\ isPanning' = TRUE
            /\ lastMousePos' = pos
            /\ UNCHANGED <<isSelecting, startPos, currentPos>>
       ELSE LET coords == getNormalizedCoords(pos)
            IN  /\ startPos' = coords
                /\ currentPos' = coords
                /\ isSelecting' = TRUE
                /\ UNCHANGED <<isPanning, lastMousePos>>
    /\ UNCHANGED <<zoom, offset, container, prevContainerSize, img, gestures,
                   isSpacePressed, isHandToolActive,
                   viewStates, activeScreenshotId, appVars, jsonError, figmaNotice>>

handleMouseMove(pos) ==
    /\ Mounted
    /\ IF isPanning
       THEN LET dx == Sub(pos.x, lastMousePos.x)
                dy == Sub(pos.y, lastMousePos.y)
                newOffset == [x |-> Add(offset.x, dx), y |-> Add(offset.y, dy)]
            IN  /\ MayGesture
                /\ offset' = newOffset
                /\ lastMousePos' = pos
                /\ viewStates' = handleViewStateChange(ViewState(zoom, newOffset, "true"))
                /\ CountGesture
                /\ UNCHANGED currentPos
       ELSE /\ IF isSelecting /\ startPos # NoPos
               THEN currentPos' = getNormalizedCoords(pos)
               ELSE UNCHANGED currentPos
            /\ UNCHANGED <<offset, lastMousePos, viewStates, gestures>>
    /\ UNCHANGED <<zoom, container, prevContainerSize, img, isPanning,
                   isSelecting, startPos, isSpacePressed, isHandToolActive,
                   activeScreenshotId, appVars, jsonError, figmaNotice>>

\* dragRect with a fault: the corner is the point where the drag started.
dragRectFromStart(p0, p1) ==
    [x |-> p0.x,
     y |-> p0.y,
     w |-> MathAbs(Sub(p1.x, p0.x)),
     h |-> MathAbs(Sub(p1.y, p0.y))]

\* The rectangle handleMouseUp derives from startPos and currentPos.
dragRect(p0, p1) ==
    [x |-> MathMin(p0.x, p1.x),
     y |-> MathMin(p0.y, p1.y),
     w |-> MathAbs(Sub(p1.x, p0.x)),
     h |-> MathAbs(Sub(p1.y, p0.y))]

\* aboveThreshold with a fault: the height is not looked at.
aboveThresholdInWidth(rect) == Lt(Num(1, 200), rect.w)

\* w > 0.005 && h > 0.005
aboveThreshold(rect) == Lt(Num(1, 200), rect.w) /\ Lt(Num(1, 200), rect.h)

\* handleMouseUp (also bound to onMouseLeave)
handleMouseUp ==
    /\ Mounted
    /\ IF isPanning
       THEN /\ isPanning' = FALSE
            /\ UNCHANGED <<isSelecting, startPos, currentPos, selections, results,
                           jsonError>>
       ELSE IF ~isSelecting \/ startPos = NoPos \/ currentPos = NoPos
       THEN /\ isSelecting' = FALSE
            /\ UNCHANGED <<isPanning, startPos, currentPos, selections, results,
                           jsonError>>
       ELSE LET rect == dragRect(startPos, currentPos)
            IN  /\ IF aboveThreshold(rect)
                   THEN IF isAnnotationMode
                        THEN /\ MayAddRow
                             /\ results' = handleAddAnnotation(rect)
                             /\ jsonError' = "none"
                             /\ UNCHANGED selections
                        ELSE /\ selections' = handleSelectionChange(rect)
                             /\ UNCHANGED <<results, jsonError>>
                   ELSE IF ~isAnnotationMode
                        THEN /\ selections' = handleSelectionChange(NoPos)
                             /\ UNCHANGED <<results, jsonError>>
                        ELSE UNCHANGED <<selections, results, jsonError>>
                /\ isSelecting' = FALSE
                /\ startPos' = NoPos
                /\ currentPos' = NoPos
                /\ UNCHANGED isPanning
    /\ UNCHANGED <<zoom, offset, container, prevContainerSize, img, lastMousePos,
                   gestures, isSpacePressed, isHandToolActive,
                   viewStates, activeScreenshotId, listVars, figmaNotice>>

\* Resize with a fault: the view it publishes is marked manual.
ResizeMarkingManual(newSize) ==
    /\ Mounted
    /\ newSize # container
    /\ container' = newSize
    /\ prevContainerSize' = newSize
    /\ IF prevContainerSize # NoSize
       THEN LET deltaX == Div(Whole(newSize.width - prevContainerSize.width), Whole(2))
                deltaY == Div(Whole(newSize.height - prevContainerSize.height), Whole(2))
                updated == [x |-> Add(offset.x, deltaX), y |-> Add(offset.y, deltaY)]
            IN  IF deltaX # Whole(0) \/ deltaY # Whole(0)
                THEN /\ MayGesture
                     /\ offset' = updated
                     /\ viewStates' =
                          handleViewStateChange(ViewState(zoom, updated, "true"))
                     /\ CountGesture
                ELSE UNCHANGED <<offset, viewStates, gestures>>
       ELSE UNCHANGED <<offset, viewStates, gestures>>
    /\ UNCHANGED <<zoom, img, isPanning, lastMousePos, activeScreenshotId, appVars, editorVars, jsonError, figmaNotice>>

\* Resize with a fault: the offset moves by the whole change of size, not by
\* half of it.
ResizeByWholeChange(newSize) ==
    /\ Mounted
    /\ newSize # container
    /\ container' = newSize
    /\ prevContainerSize' = newSize
    /\ IF prevContainerSize # NoSize
       THEN LET deltaX == Whole(newSize.width - prevContainerSize.width)
                deltaY == Whole(newSize.height - prevContainerSize.height)
                updated == [x |-> Add(offset.x, deltaX), y |-> Add(offset.y, deltaY)]
            IN  IF deltaX # Whole(0) \/ deltaY # Whole(0)
                THEN /\ MayGesture
                     /\ offset' = updated
                     /\ viewStates' =
                          handleViewStateChange(ViewState(zoom, updated, savedManual))
                     /\ CountGesture
                ELSE UNCHANGED <<offset, viewStates, gestures>>
       ELSE UNCHANGED <<offset, viewStates, gestures>>
    /\ UNCHANGED <<zoom, img, isPanning, lastMousePos, activeScreenshotId, appVars, editorVars, jsonError, figmaNotice>>

\* The canvas area takes the size newSize and the ResizeObserver reports it.
Resize(newSize) ==
    /\ Mounted
    /\ newSize # container
    /\ container' = newSize
    /\ prevContainerSize' = newSize
    /\ IF prevContainerSize # NoSize
       THEN LET deltaX == Div(Whole(newSize.width - prevContainerSize.width), Whole(2))
                deltaY == Div(Whole(newSize.height - prevContainerSize.height), Whole(2))
                updated == [x |-> Add(offset.x, deltaX), y |-> Add(offset.y, deltaY)]
            IN  IF deltaX # Whole(0) \/ deltaY # Whole(0)
                THEN /\ MayGesture
                     /\ offset' = updated
                     /\ viewStates' =
                          handleViewStateChange(ViewState(zoom, updated, savedManual))
                     /\ CountGesture
                ELSE UNCHANGED <<offset, viewStates, gestures>>
       ELSE UNCHANGED <<offset, viewStates, gestures>>
    /\ UNCHANGED <<zoom, img, isPanning, lastMousePos, activeScreenshotId, appVars, editorVars, jsonError, figmaNotice>>

\* Two screenshots have been uploaded; the first is active and its
\* ImageWorkspace has just been mounted.
ViewInit ==
    /\ screenshots = [i \in 1..MaxDocs |-> i]
    /\ activeScreenshotId = 1
    /\ selectedIds = {1}
    /\ selections = EmptyRecord
    /\ results = EmptyRecord
    /\ screenContexts = [id \in Ids |-> DefaultContext]
    /\ viewStates = EmptyRecord
    /\ isAnalyzing = FALSE
    /\ currentAnalyzingId = NoId
    /\ canceledIds = {}
    /\ analysisFeedback = <<>>
    /\ error = "none"
    /\ analysisController = NoController
    /\ loops = [l \in LoopIds |-> FreeLoop]
    /\ reading = <<>>
    /\ apiKey = TRUE
    /\ zoom = Whole(1)
    /\ offset = Point(0, 0)
    /\ container \in ContainerSizes
    /\ prevContainerSize = container
    /\ img = "decoding"
    /\ isPanning = FALSE
    /\ lastMousePos = Point(0, 0)
    /\ gestures = 0
    /\ isSelecting = FALSE
    /\ startPos = NoPos
    /\ currentPos = NoPos
    /\ isSpacePressed = FALSE
    /\ isHandToolActive = FALSE
    /\ jsonError = "none"
    /\ figmaNotice = "none"
    /\ gone = [l \in LoopIds |-> {}]

ViewNext ==
    \/ \E id \in Ids, complete \in BOOLEAN : setActiveScreenshotId(id, complete)
    \/ ImgDecoded
    \/ ImgLoad
    \/ FitButton
    \/ \E mouse \in Cursors, factor \in WheelFactors : handleWheel(mouse, factor)
    \/ zoomOutButton
    \/ zoomInButton
    \/ \E pos \in Cursors : handleMouseDown(pos, 1)
    \/ \E pos \in Cursors : handleMouseMove(pos)
    \/ handleMouseUp
    \/ \E newSize \in ContainerSizes : Resize(newSize)

ViewSpec == ViewInit /\ [][ViewNext]_vars

\* ------------------------------------------------- regions and result rows
\* GestureSpec drives the rectangle and pan gestures of ImageWorkspace, and
\* RowSpec the row handlers of App, on two screenshots, the first of which
\* has been analysed; the batch pipeline stays idle and the canvas keeps its
\* size.

\* Where the pointer is pressed, moved and released.
Pointers == {Point(92, 67), Point(132, 107), Point(92, 107)}

\* What stays as it is in a step that only touches the gesture state.
viewAndApp == <<workspaceVars, viewStates, activeScreenshotId, appVars>>

\* keydown of Space outside an input field.
handleKeyDown ==
    /\ Mounted
    /\ ~isSpacePressed
    /\ isSpacePressed' = TRUE
    /\ UNCHANGED <<isSelecting, startPos, currentPos, isHandToolActive, viewAndApp,
                   jsonError, figmaNotice>>

\* keyup of Space.
handleKeyUp ==
    /\ Mounted
    /\ isSpacePressed' = FALSE
    /\ isPanning' = FALSE
    /\ UNCHANGED <<isSelecting, startPos, currentPos, isHandToolActive,
                   zoom, offset, container, prevContainerSize, img, lastMousePos,
                   gestures, viewStates, activeScreenshotId, appVars, jsonError, figmaNotice>>

\* The hand tool button: setIsHandToolActive(!isHandToolActive)
toggleHandTool ==
    /\ Mounted
    /\ isHandToolActive' = ~isHandToolActive
    /\ UNCHANGED <<isSelecting, startPos, currentPos, isSpacePressed, viewAndApp,
                   jsonError, figmaNotice>>

\* The "Clear" button, shown for a pending region outside annotation mode.
clearSelection ==
    /\ Mounted
    /\ activeScreenshotId \in DOMAIN selections
    /\ ~isAnnotationMode
    /\ selections' = handleSelectionChange(NoPos)
    /\ UNCHANGED <<results, listVars, workspaceVars, viewStates,
                   activeScreenshotId, editorVars, jsonError, figmaNotice>>

\* What a step on the rows of the active result leaves alone.
notResults == <<selections, listVars, workspaceVars, viewStates,
                activeScreenshotId, editorVars, figmaNotice>>

\* The AnalysisResult panel is shown: the active screenshot has a result.
HasActiveResult == activeScreenshotId # NoId /\ activeScreenshotId \in DOMAIN results

\* The item_no values of a list of events or annotations, in list order.
ItemNos(rows) == [i \in DOMAIN rows |-> rows[i].item_no]

\* rows with row placed before the first row of a greater item_no.
RECURSIVE InsertByItemNo(_, _)
InsertByItemNo(rows, row) ==
    IF rows = <<>> THEN <<row>>
    ELSE IF row.item_no < Head(rows).item_no THEN <<row>> \o rows
    ELSE <<Head(rows)>> \o InsertByItemNo(Tail(rows), row)

\* remainingEvents.sort((a, b) => a.item_no - b.item_no): a stable sort.
RECURSIVE SortByItemNo(_)
SortByItemNo(rows) ==
    IF rows = <<>> THEN <<>>
    ELSE InsertByItemNo(SortByItemNo(SubSeq(rows, 1, Len(rows) - 1)), rows[Len(rows)])

\* rows.filter(r => r.item_no !== itemNo)
RECURSIVE WithoutItemNo(_, _)
WithoutItemNo(rows, itemNo) ==
    IF rows = <<>> THEN <<>>
    ELSE LET rest == WithoutItemNo(Tail(rows), itemNo)
         IN  IF Head(rows).item_no # itemNo THEN <<Head(rows)>> \o rest ELSE rest

\* idMap.get(itemNo) after the forEach over the sorted remaining events: the
\* index of the last of them with that item_no (0: idMap has no such key).
idMapGet(sorted, itemNo) ==
    LET at == {i \in DOMAIN sorted : sorted[i].item_no = itemNo}
    IN  IF at = {} THEN 0 ELSE CHOOSE i \in at : \A k \in at : k <= i

\* The annotations handleDeleteRow keeps, renumbered through idMap.
RECURSIVE renumberAnnotations(_, _)
renumberAnnotations(anns, sorted) ==
    IF anns = <<>> THEN <<>>
    ELSE LET a == Head(anns)
             newId == idMapGet(sorted, a.item_no)
             rest == renumberAnnotations(Tail(anns), sorted)
         IN  IF newId # 0 THEN <<[a EXCEPT !.item_no = newId]>> \o rest ELSE rest

\* The result handleDeleteRow(itemNo) makes of `current`.
deleteRow(current, itemNo) ==
    LET remainingEvents == SortByItemNo(WithoutItemNo(current.events, itemNo))
        newEvents == [i \in DOMAIN remainingEvents |->
                        [remainingEvents[i] EXCEPT !.item_no = i]]
    IN  [events |-> newEvents,
         annotations |-> renumberAnnotations(current.annotations, remainingEvents)]

\* The bin of a row of the table.
handleDeleteRow(itemNo) ==
    /\ HasActiveResult
    /\ itemNo \in Range(ItemNos(results[activeScreenshotId].events))
    /\ results' = With(results, activeScreenshotId,
                       deleteRow(results[activeScreenshotId], itemNo))
    /\ jsonError' = "none"
    /\ UNCHANGED notResults

\* The "add row" button of the table.
handleAddRow ==
    LET current == currentResult
        newId == Len(current.events) + 1
        newEvent == [item_no |-> newId, event_action |-> "new_action"]
    IN  /\ HasActiveResult
        /\ Len(current.events) < MaxRows
        /\ results' = With(results, activeScreenshotId,
                           [current EXCEPT !.events = Append(current.events, newEvent)])
        /\ jsonError' = "none"
        /\ UNCHANGED notResults

\* parseInt of the texts typed into a cell; a text outside the table gives NaN.
parseIntTable == ("0" :> 0) @@ ("2" :> 2) @@ ("3" :> 3)

\* parseInt(value) || e.item_no
parseIntOr(value, itemNo) ==
    IF value \in DOMAIN parseIntTable /\ parseIntTable[value] # 0
    THEN parseIntTable[value]
    ELSE itemNo

\* commitCellEdit: onUpdateEvent(itemNo, field, tempCellValue).  App makes
\* handleUpdateEvent and handleUpdateEvents with useCallback(...,
\* [activeScreenshotId]): the `results` their guard reads is the one of the
\* render in which the screenshot became active, which has the result shown
\* (closureHasResult) only if the analysis was over by then.
handleUpdateEvent(itemNo, field, value, closureHasResult) ==
    LET current == results[activeScreenshotId]
        updatedEvents ==
          [i \in DOMAIN current.events |->
             LET e == current.events[i]
             IN  IF e.item_no = itemNo
                 THEN IF field = "item_no"
                      THEN [e EXCEPT !.item_no = parseIntOr(value, e.item_no)]
                      ELSE ("event_action" :> value) @@ e
                 ELSE e]
    IN  /\ HasActiveResult
        /\ itemNo \in Range(ItemNos(current.events))
        /\ IF closureHasResult
           THEN /\ results' = With(results, activeScreenshotId,
                                   [current EXCEPT !.events = updatedEvents])
                /\ jsonError' = "none"
           ELSE UNCHANGED <<results, jsonError>>
        /\ UNCHANGED notResults

\* The cells edited: the number of a row, with and without digits, and its action.
CellEdits == {<<"item_no", "2">>, <<"item_no", "0">>, <<"item_no", "x">>,
              <<"event_action", "x">>}

\* handleJsonChange: the user types in the text area of the JSON tab.
handleJsonChange ==
    /\ HasActiveResult
    /\ jsonError' = "none"
    /\ UNCHANGED <<results, notResults>>

\* commitJsonEdit with a fault: what the events field holds is stored
\* whether it is an array or not.
commitJsonEditUnchecked(parses, events, closureHasResult) ==
    /\ HasActiveResult
    /\ IF ~parses
       THEN /\ jsonError' = "Invalid JSON syntax"
            /\ UNCHANGED results
       ELSE /\ results' = With(results, activeScreenshotId,
                               [results[activeScreenshotId] EXCEPT !.events = events.items])
            /\ jsonError' = IF IsArray(events) THEN "none"
                            ELSE "Invalid JSON structure: missing 'events' array"
    /\ UNCHANGED notResults

\* commitJsonEdit for a text of the JSON tab: JSON.parse throws (parses
\* FALSE), or gives an object whose events field is `events`.
commitJsonEdit(parses, events, closureHasResult) ==
    /\ HasActiveResult
    /\ IF ~parses
       THEN /\ jsonError' = "Invalid JSON syntax"
            /\ UNCHANGED results
       ELSE IF ~IsArray(events)
       THEN /\ jsonError' = "Invalid JSON structure: missing 'events' array"
            /\ UNCHANGED results
       ELSE /\ IF closureHasResult
               THEN results' = With(results, activeScreenshotId,
                                    [results[activeScreenshotId]
                                       EXCEPT !.events = events.items])
               ELSE UNCHANGED results
            /\ jsonError' = "none"
    /\ UNCHANGED notResults

\* The texts committed in the JSON tab for the events shown that parse to
\* an object with an events array: the text without its last event, and
\* with the events in reverse order.
JsonEdits(events) ==
    {<<TRUE, Arr(SubSeq(events, 1, Len(events) - 1))>>,
     <<TRUE, Arr([i \in DOMAIN events |-> events[Len(events) + 1 - i]])>>}

\* What analyzeImage returned for the first screenshot: two events and
\* their annotations, with the boxes the model drew.
AnalyzedResult ==
    [events |-> <<[item_no |-> 1, event_action |-> "view"],
                  [item_no |-> 2, event_action |-> "click"]>>,
     annotations |-> <<[item_no |-> 1, label |-> "view",
                        bbox |-> [x |-> Num(1, 10), y |-> Num(1, 10),
                                  w |-> Num(1, 2), h |-> Num(1, 2)]],
                       [item_no |-> 2, label |-> "click",
                        bbox |-> [x |-> Num(1, 5), y |-> Num(1, 5),
                                  w |-> Num(1, 10), h |-> Num(1, 10)]]>>]

\* A region dragged on the first screenshot before it was analysed.
EarlierRegion ==
    [x |-> Num(1, 10), y |-> Num(1, 10), w |-> Num(2, 5), h |-> Num(2, 5)]

\* Two screenshots in a 264 x 214 canvas; the first is active, loaded and
\* fitted, and has been analysed over a region that is still pending.  One
\* step on the view has been made.
EditInit ==
    /\ screenshots = [i \in 1..MaxDocs |-> i]
    /\ activeScreenshotId = 1
    /\ selectedIds = {1}
    /\ selections = With(EmptyRecord, 1, EarlierRegion)
    /\ results = With(EmptyRecord, 1, AnalyzedResult)
    /\ screenContexts = [id \in Ids |-> DefaultContext]
    /\ container = Size(264, 214)
    /\ prevContainerSize = container
    /\ img = "loaded"
    /\ zoom = fitToScreen(container, naturalSize(1)).zoom
    /\ offset = fitToScreen(container, naturalSize(1)).offset
    /\ viewStates = With(EmptyRecord, 1, ViewState(zoom, offset, "false"))
    /\ isAnalyzing = FALSE
    /\ currentAnalyzingId = NoId
    /\ canceledIds = {}
    /\ analysisFeedback = <<>>
    /\ error = "none"
    /\ analysisController = NoController
    /\ loops = [l \in LoopIds |-> FreeLoop]
    /\ reading = <<>>
    /\ apiKey = TRUE
    /\ isPanning = FALSE
    /\ lastMousePos = Point(0, 0)
    /\ gestures = MaxGestures - 1
    /\ isSelecting = FALSE
    /\ startPos = NoPos
    /\ currentPos = NoPos
    /\ isSpacePressed = FALSE
    /\ isHandToolActive = FALSE
    /\ jsonError = "none"
    /\ figmaNotice = "none"
    /\ gone = [l \in LoopIds |-> {}]

\* The gestures on the canvas, with the keys and buttons that set their mode.
GestureNext ==
    \/ \E id \in Ids : setActiveScreenshotId(id, TRUE)
    \/ ImgLoad
    \/ \E pos \in Pointers, button \in {0, 1} : handleMouseDown(pos, button)
    \/ \E pos \in Pointers : handleMouseMove(pos)
    \/ handleMouseUp
    \/ handleKeyDown
    \/ handleKeyUp
    \/ toggleHandTool
    \/ clearSelection

GestureSpec == EditInit /\ [][GestureNext]_vars

\* The handlers that change the rows of the result shown.
RowNext ==
    \/ handleMouseDown(Point(92, 67), 0)
    \/ handleMouseMove(Point(132, 107))
    \/ handleMouseUp
    \/ \E itemNo \in 1..MaxRows : handleDeleteRow(itemNo)
    \/ handleAddRow
    \/ \E itemNo \in 1..MaxRows, edit \in CellEdits, closureHasResult \in BOOLEAN :
         handleUpdateEvent(itemNo, edit[1], edit[2], closureHasResult)
    \/ \E text \in JsonEdits(currentResult.events), closureHasResult \in BOOLEAN :
         commitJsonEdit(text[1], text[2], closureHasResult)

RowSpec == EditInit /\ [][RowNext]_vars

\* The texts committed in the JSON tab: those of JsonEdits, a text without
\* an events array, a text that does not parse, and a text whose only event
\* has an item_no and nothing else.
CommittedTexts(events) ==
    JsonEdits(events) \cup {<<TRUE, NotArray>>, <<FALSE, Missing>>,
                            <<TRUE, Arr(<<[item_no |-> 1]>>)>>}

\* The JSON tab and the table of the active result.
JsonNext ==
    \/ \E text \in CommittedTexts(currentResult.events), closureHasResult \in BOOLEAN :
         commitJsonEdit(text[1], text[2], closureHasResult)
    \/ handleJsonChange
    \/ \E itemNo \in 1..MaxRows : handleDeleteRow(itemNo)
    \/ handleAddRow
    \/ \E itemNo \in 1..MaxRows, edit \in CellEdits, closureHasResult \in BOOLEAN :
         handleUpdateEvent(itemNo, edit[1], edit[2], closureHasResult)

JsonSpec == EditInit /\ [][JsonNext]_vars

\* ------------------------------------------------- imports from Figma
\* The texts a message carries as its image, cut in pieces: a data URL of
\* an image, one of an image without the ";" dataUrlToFile looks for, one of
\* a text, bare base64 characters, and nothing (undefined or "").
ImportPayloads ==
    {<<"data:", "image", "/png", ";", "base64", ",", "AAAA">>,
     <<"data:", "image", "/png", ",", "AAAA">>,
     <<"data:", "text/plain", ";", "base64", ",", "AAAA">>,
     <<"AAAA">>,
     <<>>}

\* setTimeout(() => setFigmaNotice(null), 3000)
figmaNoticeTimeout ==
    /\ figmaNotice # "none"
    /\ figmaNotice' = "none"
    /\ UNCHANGED <<screenshots, activeScreenshotId, selectedIds, selections,
                   results, screenContexts, viewStates, isAnalyzing,
                   currentAnalyzingId, canceledIds, analysisFeedback, error,
                   analysisController, loops, gone, reading, apiKey, workspaceVars,
                   editorVars, jsonError>>

\* handleFigmaImport for a message of type UI2GA_IMPORT_IMAGE_BASE64 whose
\* payload.dataUrl is dataUrl.
handleFigmaImport(dataUrl) ==
    LET startsWith(prefix) ==
            /\ Len(dataUrl) >= Len(prefix)
            /\ SubSeq(dataUrl, 1, Len(prefix)) = prefix
        \* dataUrlToFile: arr[0].match(/:(.*?);/) on the part before the comma
        mimeMatch ==
            \E i \in DOMAIN dataUrl :
                dataUrl[i] = ";" /\ \A j \in 1..i : dataUrl[j] # ","
    IN  IF dataUrl = <<>> \/ ~startsWith(<<"data:", "image">>)
        THEN /\ figmaNotice' = "Import failed: Invalid image data"
             /\ UNCHANGED <<screenshots, activeScreenshotId, selectedIds, selections,
                            results, screenContexts, viewStates, isAnalyzing,
                            currentAnalyzingId, canceledIds, analysisFeedback, error,
                            analysisController, loops, gone, reading, apiKey, workspaceVars,
                            editorVars, jsonError>>
        ELSE IF mimeMatch
        THEN /\ handleImagesSelected(1)
             /\ figmaNotice' = "Imported from Figma"
        ELSE UNCHANGED vars

\* handleFigmaMessage for a pluginMessage of type UI2GA_FIGMA_IMAGE whose
\* data is `data`, a string.  The ids of this format are "F" and a number,
\* a series apart from the "A" and a number of the uploads: MaxDocs + number.
handleFigmaMessage(data) ==
    LET sequentialId == MaxDocs + Len(screenshots) + 1
    IN  /\ ~MicrotaskPending
        /\ data # <<>>
        /\ Len(screenshots) < MaxDocs
        /\ processNewScreenshots(<<sequentialId>>)
        /\ UNCHANGED <<selections, results, viewStates, isAnalyzing,
                       currentAnalyzingId, canceledIds, analysisFeedback, error,
                       analysisController, loops, gone, reading, apiKey, workspaceVars,
                       editorVars, jsonError, figmaNotice>>

ImportNext ==
    \/ \E dataUrl \in ImportPayloads : handleFigmaImport(dataUrl)
    \/ \E data \in ImportPayloads : handleFigmaMessage(data)
    \/ \E i \in 1..MaxReading : FilesLoaded(i)
    \/ figmaNoticeTimeout
    \/ \E id \in Range(screenshots) : toggleSelection(id)

ImportSpec == Init /\ [][ImportNext]_vars

\* ----------------------------------------------------------------- claims
\* Loop l reaches its finally block in this step.
Ends(l) == loops[l].active /\ ~loops'[l].active

\* The target loop l is waiting for.
CurrentTarget(l) == loops[l].targets[loops[l].idx]

\* C1: in every reachable state at most one external Analyzer call is in
\* flight and at most one id has status in-flight.
C1_AtMostOneInFlight ==
    /\ Cardinality(InFlight) <= 1
    /\ Cardinality({id \in Ids : Status(id) = "in-flight"}) <= 1

\* C2: a cancel request during an in-flight call interrupts the call: no
\* run whose token is signaled is still waiting for the Analyzer.
C2_CancelInterruptsCall ==
    \A l \in LoopIds : loops[l].aborted => loops[l].call # "inflight"

\* C3: when a run whose token was signaled while its k-th target was in
\* flight ends, the summary is (targets completed before k) of n and the
\* k-th and every later target is marked canceled-or-failed.
C3_CancelSummary ==
    [][\A l \in LoopIds :
         (Ends(l) /\ loops[l].aborted) =>
            /\ analysisFeedback' =
                 <<Cardinality(loops[l].processedIds), Len(loops[l].targets)>>
            /\ \A j \in loops[l].idx..Len(loops[l].targets) :
                 loops[l].targets[j] \in canceledIds']_vars

\* C4: a step of a run whose token has been signaled writes no result and
\* ends the run, whatever the in-flight call settled with: no later target
\* is attempted.
C4_NoWriteAfterAbort ==
    [][\A l \in LoopIds :
         (loops[l].active /\ loops[l].aborted /\ loops'[l] # loops[l]) =>
            /\ results' = results
            /\ ~loops'[l].active]_vars

\* A run of two targets, signaled while its first call was in flight, has
\* ended: nothing was written and the second target was not attempted.
C4_Witness ==
    /\ \A l \in LoopIds : ~loops[l].active
    /\ screenshots = <<1, 2>>
    /\ analysisFeedback = <<0, 2>>
    /\ canceledIds = {1, 2}
    /\ DOMAIN results = {}

Rejections == {[how |-> "reject", text |-> Text(FALSE, Missing), reason |-> r] :
                 r \in {"entity", "other"}}

\* C5: when the call for a target rejects (not a cancellation, not a missing
\* credential) the loop goes on with the next target, and the target ends the
\* run marked canceled-or-failed.
C5_FailedItemMarked ==
    [][\A l \in InFlight : \A rejection \in Rejections :
         (~loops[l].aborted /\ AnalyzerSettles(l, rejection)) =>
            IF loops[l].idx < Len(loops[l].targets)
            THEN /\ loops'[l].active
                 /\ loops'[l].idx = loops[l].idx + 1
                 /\ loops'[l].call = "inflight"
            ELSE CurrentTarget(l) \in canceledIds']_vars

\* C6: on the missing-credential error the run ends at once, a run-level
\* error is set and every target that is not completed is marked
\* canceled-or-failed.
C6_FatalAbortMarksTargets ==
    [][\A l \in LoopIds :
         MissingApiKey(l) =>
            /\ ~loops'[l].active
            /\ error' # "none"
            /\ \A t \in Range(loops[l].targets) \ loops[l].processedIds :
                 t \in canceledIds']_vars

\* The answers for `target` whose annotations field is missing or no array.
MalformedAnnotations(target) ==
    {[how |-> "resolve", reason |-> "",
      text |-> Text(TRUE, Arr(<<Screen(target, Arr(SomeEvents), a)>>))] :
        a \in {Missing, NotArray}}

\* C7: an answer for the target that lacks the annotations array is stored
\* with an empty annotation list and the events as returned, the target
\* counts as completed (it is not marked canceled-or-failed, no error is set)
\* and the loop goes on.
C7_MalformedTolerated ==
    [][\A l \in InFlight : \A settlement \in MalformedAnnotations(CurrentTarget(l)) :
         (~loops[l].aborted /\ AnalyzerSettles(l, settlement)) =>
            LET target == CurrentTarget(l)
            IN  /\ target \in DOMAIN results'
                /\ results'[target] = [events |-> SomeEvents, annotations |-> <<>>]
                /\ error' = error
                /\ target \in canceledIds' => target \in canceledIds
                /\ IF loops[l].idx < Len(loops[l].targets)
                   THEN /\ loops'[l].active
                        /\ loops'[l].idx = loops[l].idx + 1
                        /\ target \in loops'[l].processedIds
                   ELSE ~loops'[l].active]_vars

\* Targets [1, 2] of one run: both completed, the second with an empty
\* annotation list and its events.
C7_Witness ==
    /\ screenshots = <<1, 2>>
    /\ \A l \in LoopIds : ~loops[l].active
    /\ DOMAIN results = {1, 2}
    /\ results[1].annotations # <<>>
    /\ results[2] = [events |-> SomeEvents, annotations |-> <<>>]
    /\ canceledIds = {}
    /\ error = "none"

\* The summary the finally block of loop l computes in this step: the last
\* iteration may have counted its target.
ProcessedAtEnd(l) ==
    IF /\ l \in InFlight
       /\ \E settlement \in Settlements(CurrentTarget(l)) :
            /\ AnalyzerSettles(l, settlement)
            /\ Outcome(analyzeImage(settlement, loops[l].aborted),
                       loops[l].aborted, CurrentTarget(l)) = "store"
    THEN loops[l].processedIds \cup {CurrentTarget(l)}
    ELSE loops[l].processedIds

Summary(l) == <<Cardinality(ProcessedAtEnd(l)), Len(loops[l].targets)>>

\* "Every run that was started eventually returns to Idle", as what a finite
\* run can refute: a loop that has not ended is never stuck (its continuation
\* is queued, or its call is in flight and the settlement can be delivered as
\* soon as no continuation is queued), every resumption of a loop moves it to
\* its next target or ends it, and a loop that ends sets the state Idle.
LoopNeverStuck ==
    \A l \in LoopIds :
        loops[l].active =>
            \/ loops[l].call = "rejected" /\ ENABLED MissingApiKey(l)
            \/ /\ loops[l].call = "inflight"
               /\ MicrotaskPending \/
                    \A settlement \in Settlements(CurrentTarget(l)) :
                        ENABLED AnalyzerSettles(l, settlement)

LoopAdvances(l) ==
    (loops[l].active /\ loops'[l] # loops[l]
        /\ loops'[l] # [loops[l] EXCEPT !.aborted = TRUE]) =>
            \/ Ends(l) /\ ~isAnalyzing'
            \/ /\ loops'[l].active
               /\ loops'[l].targets = loops[l].targets
               /\ loops'[l].idx = loops[l].idx + 1

RejectedStart == handleAnalyze /\ (isAnalyzing \/ selectedIds = {})

\* A click on Analyze that starts a run.
AcceptedStart == handleAnalyze /\ ~isAnalyzing /\ selectedIds # {}

FreshToken ==
    /\ analysisController' # NoController
    /\ ~loops[analysisController'].active
    /\ loops'[analysisController'].active
    /\ ~loops'[analysisController'].aborted

\* C10 as stated: right after an accepted start the run is Running with a
\* fresh token and every target has status pending.
C10_AllTargetsPending ==
    [][AcceptedStart =>
         /\ isAnalyzing'
         /\ FreshToken
         /\ \A t \in Range(Filter(screenshots, selectedIds)) :
              Status(t)' = "pending"]_vars

\* C10 amended: right after an accepted start the run is Running with a fresh
\* token, no target is marked canceled-or-failed, the first target is
\* in-flight, and every other target is pending unless it holds a result of
\* an earlier run, which it keeps (status completed).
C10_TargetsResetExceptResults ==
    [][AcceptedStart =>
         LET targets == Filter(screenshots, selectedIds)
         IN  /\ isAnalyzing'
             /\ FreshToken
             /\ results' = results
             /\ \A t \in Range(targets) :
                  /\ t \notin canceledIds'
                  /\ Status(t)' = IF t = targets[1] THEN "in-flight"
                                  ELSE IF t \in DOMAIN results THEN "completed"
                                  ELSE "pending"]_vars

\* A run of targets [1, 2] has just started: the first is in flight, the
\* second still shows the result of an earlier run.
C10_Witness ==
    \E l \in LoopIds :
        /\ isAnalyzing
        /\ analysisController = l
        /\ loops[l].targets = <<1, 2>>
        /\ loops[l].idx = 1
        /\ loops[l].processedIds = {}
        /\ ~loops[l].aborted
        /\ Status(1) = "in-flight"
        /\ Status(2) = "completed"

\* C11: within one run the targets become in-flight in the order of the
\* target list: a run starts with its first target, a run that goes on moves
\* from position idx to idx + 1 of the same list, only when the call for
\* position idx has settled, and shows the new target as the one in flight;
\* no position is attempted twice.
C11_TargetsInListOrder ==
    [][\A l \in LoopIds :
         /\ (~loops[l].active /\ loops'[l].active) =>
               /\ loops'[l].targets = Filter(screenshots, selectedIds)
               /\ loops'[l].idx = 1
               /\ currentAnalyzingId' = loops'[l].targets[1]
         /\ (loops[l].active /\ loops'[l].active /\ loops'[l] # loops[l]
                /\ loops'[l] # [loops[l] EXCEPT !.aborted = TRUE]) =>
               /\ loops[l].call = "inflight"
               /\ loops'[l].targets = loops[l].targets
               /\ loops'[l].idx = loops[l].idx + 1
               /\ currentAnalyzingId' = loops'[l].targets[loops'[l].idx]]_vars

\* The second target of a run of [1, 2] is in flight, the first has been
\* completed.
C11_Witness ==
    \E l \in LoopIds :
        /\ loops[l].targets = <<1, 2>>
        /\ loops[l].idx = 2
        /\ loops[l].call = "inflight"
        /\ loops[l].processedIds = {1}
        /\ Status(2) = "in-flight"
        /\ Status(1) = "completed"

\* C12: a step of a run changes no result but that of the target it was
\* waiting for, and that one only by storing the answer to its call: a
\* failure, the fatal error and a cancellation leave every result, of a
\* completed target and of the failed or canceled one, as it was.
C12_ResultsKeptOnFailure ==
    [][\A l \in LoopIds :
         (loops[l].active /\ loops'[l] # loops[l]) =>
            \/ results' = results
            \/ /\ loops[l].call = "inflight"
               /\ ~loops[l].aborted
               /\ CurrentTarget(l) \in DOMAIN results'
               /\ CurrentTarget(l) \in loops'[l].processedIds \cup ProcessedAtEnd(l)
               /\ \A id \in Ids \ {CurrentTarget(l)} :
                    /\ id \in DOMAIN results' <=> id \in DOMAIN results
                    /\ id \in DOMAIN results => results'[id] = results[id]]_vars

\* In a second run of [1, 2] the call for target 1 failed: both targets
\* still hold the results of the first run.
C12_Witness ==
    \E l \in LoopIds :
        /\ loops[l].targets = <<1, 2>>
        /\ loops[l].idx = 2
        /\ loops[l].processedIds = {}
        /\ DOMAIN results = {1, 2}

\* 0.05 <= z <= 10
ZoomInRange(z) == ~IsNaN(z) /\ ~Lt(z, Num(1, 20)) /\ ~Lt(Whole(10), z)

\* C13: after every operation that sets zoom (wheel, the + and - buttons, fit
\* to screen on load or on demand, restore from the store) the zoom shown and
\* every stored zoom is within [0.05, 10].
C13_ZoomWithinBounds ==
    /\ ZoomInRange(zoom)
    /\ \A id \in DOMAIN viewStates : ZoomInRange(viewStates[id].zoom)

\* The image point under the pointer at `mouse` for zoom z and offset o.
ImagePoint(mouse, z, o) ==
    [x |-> Div(Sub(mouse.x, o.x), z), y |-> Div(Sub(mouse.y, o.y), z)]

\* C14: every wheel zoom keeps the image point under the pointer where it
\* is: (cursor - offset) / zoom is the same number, on both axes, before and
\* after the step.
C14_ZoomKeepsPointUnderCursor ==
    [][\A mouse \in Cursors, factor \in WheelFactors :
         handleWheel(mouse, factor) =>
            LET before == ImagePoint(mouse, zoom, offset)
                after == ImagePoint(mouse, zoom', offset')
            IN  /\ StrictEq(before.x, after.x)
                /\ StrictEq(before.y, after.y)]_vars

\* zoomAt with 1 / factor at the same pointer, applied to the view a wheel
\* step has produced, gives back the zoom and the offset before the step.
WheelUndone(mouse, factor) ==
    LET back == zoomAt(zoom', offset', mouse, Inv(factor))
    IN  /\ StrictEq(back.zoom, zoom)
        /\ StrictEq(back.offset.x, offset.x)
        /\ StrictEq(back.offset.y, offset.y)

\* C15: zoomAt(cursor, factor) followed by zoomAt(cursor, 1 / factor) at the
\* same cursor returns zoom and offset to their values before the first call.
C15_ZoomAtInvertible ==
    [][\A mouse \in Cursors, factor \in WheelFactors :
         handleWheel(mouse, factor) => WheelUndone(mouse, factor)]_vars

\* ViewSpec starts with the first screenshot shown: once another screenshot
\* has a stored view, the first one, when active, has been left and is shown
\* again.
ShownAgain ==
    /\ activeScreenshotId = screenshots[1]
    /\ \E other \in DOMAIN viewStates : other # activeScreenshotId

\* C16: when the stored view of a screenshot is manual, switching to another
\* screenshot and back, the load of the image included, shows the screenshot
\* with the stored zoom and offset and leaves its stored view unchanged: no
\* fit is applied.
C16_ManualViewSurvivesSwitch ==
    [][/\ \A id \in Ids, complete \in BOOLEAN :
            (/\ setActiveScreenshotId(id, complete)
             /\ id \in DOMAIN viewStates
             /\ viewStates[id].manual = "true")
               => /\ zoom' = viewStates[id].zoom
                  /\ offset' = viewStates[id].offset
                  /\ viewStates' = viewStates
       /\ (ImgLoad /\ ShownAgain /\ savedManual = "true")
               => /\ zoom' = savedViewState.zoom
                  /\ offset' = savedViewState.offset
                  /\ viewStates' = viewStates]_vars

\* z is the least of availableWidth / imageWidth, availableHeight /
\* imageHeight and 1: it exceeds none of them and equals one of them.
IsFitZoom(containerSize, imageSize, z) ==
    LET availableWidth == Whole(containerSize.width - padding)
        availableHeight == Whole(containerSize.height - padding)
        scaledWidth == Mul(z, Whole(imageSize.width))
        scaledHeight == Mul(z, Whole(imageSize.height))
    IN  /\ ~Lt(Whole(1), z)
        /\ ~Lt(availableWidth, scaledWidth)
        /\ ~Lt(availableHeight, scaledHeight)
        /\ \/ StrictEq(z, Whole(1))
           \/ StrictEq(scaledWidth, availableWidth)
           \/ StrictEq(scaledHeight, availableHeight)

\* The image scaled by z and drawn at offset o has the same margin on the
\* left as on the right and on the top as at the bottom of the container.
IsCentered(containerSize, imageSize, z, o) ==
    /\ StrictEq(Add(Add(o.x, o.x), Mul(z, Whole(imageSize.width))),
                Whole(containerSize.width))
    /\ StrictEq(Add(Add(o.y, o.y), Mul(z, Whole(imageSize.height))),
                Whole(containerSize.height))

\* The view shown and the view stored for screenshot id after the step are
\* the fit of its image, not manual.
FittedAfter(id) ==
    /\ IsFitZoom(container, naturalSize(id), zoom')
    /\ IsCentered(container, naturalSize(id), zoom', offset')
    /\ id \in DOMAIN viewStates'
    /\ viewStates'[id] = ViewState(zoom', offset', "false")

\* C17: fitToScreen gives zoom = min(availableWidth / imageWidth,
\* availableHeight / imageHeight, 1) and an offset that centres the scaled
\* image in the container, stores the view as not manual, and is applied on
\* the load of the image and on a switch to a screenshot whose stored view
\* is absent or not manual.
C17_FitToScreen ==
    [][/\ ImgLoad => FittedAfter(activeScreenshotId)
       /\ \A id \in Ids :
            (/\ setActiveScreenshotId(id, TRUE)
             /\ (id \in DOMAIN viewStates => viewStates[id].manual # "true"))
               => FittedAfter(id)]_vars

\* The wide screenshot has been loaded into the 164 x 164 canvas: it is shown
\* at zoom 100 / 4000 with 32 px on either side.
C17_Witness ==
    /\ activeScreenshotId = 2
    /\ img = "loaded"
    /\ container = Size(164, 164)
    /\ zoom = Num(1, 40)
    /\ offset = [x |-> Whole(32), y |-> Num(323, 4)]
    /\ savedManual = "false"

\* The zoom and offset of the active screenshot as App has them: the stored
\* view, or the view ImageWorkspace starts with when none is stored.
activeZoom == IF HasSavedViewState THEN savedViewState.zoom ELSE zoom

activeOffset == IF HasSavedViewState THEN savedViewState.offset ELSE offset

\* C18: when the container changes size by (dw, dh), the stored offset of
\* the active screenshot is its value before the resize plus (dw / 2, dh / 2)
\* and the stored zoom is the zoom before the resize.
C18_ResizeShiftsByHalf ==
    [][\A newSize \in ContainerSizes :
         Resize(newSize) =>
            LET dw == newSize.width - container.width
                dh == newSize.height - container.height
            IN  /\ activeScreenshotId \in DOMAIN viewStates'
                /\ viewStates'[activeScreenshotId].offset =
                      [x |-> Add(activeOffset.x, Num(dw, 2)),
                       y |-> Add(activeOffset.y, Num(dh, 2))]
                /\ viewStates'[activeScreenshotId].zoom = activeZoom
                /\ offset' = viewStates'[activeScreenshotId].offset
                /\ zoom' = zoom]_vars

\* The first screenshot was zoomed to 1.05 about (100, 50) in the 164 x 164
\* canvas, which left the offset at (-5, -2.5); the canvas then grew to
\* 264 x 214 and the offset moved by (50, 25).
C18_Witness ==
    /\ activeScreenshotId = 1
    /\ container = Size(264, 214)
    /\ zoom = Num(21, 20)
    /\ HasSavedViewState
    /\ savedViewState.zoom = Num(21, 20)
    /\ savedViewState.offset = [x |-> Whole(45), y |-> Num(45, 2)]
    /\ gestures = 2

\* C19: the view published after a resize has the manual value of the view
\* stored before the resize, true or false, and carries no manual value when
\* no view had been stored.
C19_ResizeKeepsManual ==
    [][\A newSize \in ContainerSizes :
         Resize(newSize) =>
            /\ activeScreenshotId \in DOMAIN viewStates'
            /\ viewStates'[activeScreenshotId].manual =
                  (IF activeScreenshotId \in DOMAIN viewStates
                   THEN viewStates[activeScreenshotId].manual
                   ELSE "undefined")]_vars

\* The wide screenshot was fitted into the 164 x 164 canvas at zoom 1 / 40,
\* not manual; the canvas then grew to 264 x 214, where a fit would give
\* zoom 1 / 20: the view was moved, not fitted again, and is still not manual.
C19_Witness ==
    /\ activeScreenshotId = 2
    /\ container = Size(264, 214)
    /\ HasSavedViewState
    /\ savedViewState.zoom = Num(1, 40)
    /\ savedViewState.offset.x = Whole(82)
    /\ savedViewState.manual = "false"
    /\ gestures = 1

\* C20: every zoomAt leaves the stored view of the active screenshot manual,
\* a request clamped at 0.05 or 10 included, and every panBy(delta) adds delta
\* to the offset, leaves the zoom and publishes the view as manual.
C20_ZoomAndPanMarkManual ==
    [][/\ \A mouse \in Cursors, factor \in WheelFactors :
            handleWheel(mouse, factor) =>
               /\ activeScreenshotId \in DOMAIN viewStates'
               /\ viewStates'[activeScreenshotId].manual = "true"
       /\ \A pos \in Cursors :
            (isPanning /\ handleMouseMove(pos)) =>
               /\ offset' = [x |-> Add(offset.x, Sub(pos.x, lastMousePos.x)),
                             y |-> Add(offset.y, Sub(pos.y, lastMousePos.y))]
               /\ zoom' = zoom
               /\ activeScreenshotId \in DOMAIN viewStates'
               /\ viewStates'[activeScreenshotId] = ViewState(zoom, offset', "true")]_vars

\* The dimensions of the image are not known: it is not decoded and its
\* naturalWidth and naturalHeight are 0.
ImageUnknown == img \in {"none", "decoding"}

\* C21: fitToScreen, zoomAt, panBy and the resize compensation are no-ops
\* while the dimensions of the image are zero or unknown: zoom, offset and
\* the stored views are unchanged and nothing is published.
C21_NoOpWithoutDimensions ==
    [][(/\ ImageUnknown
        /\ \/ FitButton
           \/ \E mouse \in Cursors, factor \in WheelFactors : handleWheel(mouse, factor)
           \/ \E pos \in Cursors : handleMouseMove(pos)
           \/ \E newSize \in ContainerSizes : Resize(newSize))
          => UNCHANGED <<zoom, offset, viewStates>>]_vars

\* handleMouseUp ends a rectangle drag in this step: no pan is under way and
\* both ends of the drag are known.
ReleasesDrag ==
    /\ handleMouseUp
    /\ ~isPanning
    /\ isSelecting
    /\ startPos # NoPos
    /\ currentPos # NoPos

\* The rectangle the step has stored: the last annotation's box in
\* annotation mode, the pending region of the active screenshot otherwise.
StoredRect ==
    IF isAnnotationMode
    THEN LET anns == results'[activeScreenshotId].annotations
         IN  anns[Len(anns)].bbox
    ELSE selections'[activeScreenshotId]

\* Something has been stored by the step.
StoresRect ==
    IF isAnnotationMode
    THEN results' # results
    ELSE /\ activeScreenshotId \in DOMAIN selections'
         /\ selections' # selections

\* C22: the rectangle derived from pointer-down p0 and pointer-up p1 has
\* x = min(x0, x1), y = min(y0, y1), w = |x1 - x0|, h = |y1 - y0|, and the
\* drag from p1 to p0 derives the same rectangle.
C22_RectFromDrag ==
    [][(ReleasesDrag /\ StoresRect) =>
          LET p0 == startPos
              p1 == currentPos
              r == StoredRect
          IN  /\ r.x = MathMin(p0.x, p1.x)
              /\ r.y = MathMin(p0.y, p1.y)
              /\ Add(r.x, r.w) = MathMax(p0.x, p1.x)
              /\ Add(r.y, r.h) = MathMax(p0.y, p1.y)
              /\ ~Lt(r.w, Whole(0))
              /\ ~Lt(r.h, Whole(0))
              /\ r = dragRect(p1, p0)]_vars

\* A drag on the second screenshot, which has no result, has been released
\* and its rectangle is the pending region: from (0.3, 0) to (0.5, 0.5).
C22_Witness ==
    /\ activeScreenshotId = 2
    /\ ~isSelecting
    /\ 2 \in DOMAIN selections
    /\ selections[2] = [x |-> Num(3, 10), y |-> Whole(0),
                        w |-> Num(1, 5), h |-> Num(1, 2)]

\* w >= 0.005 and h >= 0.005
NotBelowThreshold(rect) ==
    /\ ~IsNaN(rect.w) /\ ~Lt(rect.w, Num(1, 200))
    /\ ~IsNaN(rect.h) /\ ~Lt(rect.h, Num(1, 200))

\* The boxes of the annotations handleAddAnnotation has made for screenshot id.
UserBoxes(id) ==
    {results[id].annotations[i].bbox :
        i \in {k \in DOMAIN results[id].annotations :
                 results[id].annotations[k].label = "click_custom"}}

\* Every pending region and every box drawn by the user is at least 0.005
\* wide and high.
RectsNotBelowThreshold ==
    /\ \A id \in DOMAIN selections : NotBelowThreshold(selections[id])
    /\ \A id \in DOMAIN results : \A box \in UserBoxes(id) : NotBelowThreshold(box)

\* C23: every stored pending region and every box of a user-made annotation
\* has w >= 0.005 and h >= 0.005, and a gesture released with a width or a
\* height below 0.005 stores no region and commits no annotation.
C23_NoRectBelowThreshold ==
    /\ []RectsNotBelowThreshold
    /\ [][(ReleasesDrag /\ ~NotBelowThreshold(dragRect(startPos, currentPos)))
             => /\ results' = results
                /\ \/ activeScreenshotId \notin DOMAIN selections'
                   \/ selections' = selections]_vars

\* The user has drawn an annotation on the analysed screenshot and a region
\* on the other one.
C23_Witness ==
    /\ UserBoxes(1) # {}
    /\ 2 \in DOMAIN selections
    /\ ~isSelecting

\* w < 0.005 or h < 0.005
BelowThreshold(rect) == Lt(rect.w, Num(1, 200)) \/ Lt(rect.h, Num(1, 200))

\* C24: a gesture released with w < 0.005 or h < 0.005 is a click: it stores
\* nothing and clears the pending region of the active screenshot, whether
\* or not the screenshot has a result.
C24_ClickClearsRegion ==
    [][(ReleasesDrag /\ BelowThreshold(dragRect(startPos, currentPos)))
          => /\ results' = results
             /\ activeScreenshotId \notin DOMAIN selections']_vars

\* C25: when the active screenshot has a result, a released rectangle above
\* the threshold is committed as exactly one new annotation and one new
\* event with the same item_no and the pending region is left as it is;
\* without a result the rectangle becomes the pending region and no
\* annotation or event is made.
C25_RectCommittedOrPending ==
    [][(ReleasesDrag /\ aboveThreshold(dragRect(startPos, currentPos))) =>
          LET rect == dragRect(startPos, currentPos)
              id == activeScreenshotId
          IN  IF id \in DOMAIN results
              THEN LET before == results[id]
                       after == results'[id]
                       n == Len(before.events)
                       m == Len(before.annotations)
                   IN  /\ Len(after.events) = n + 1
                       /\ Len(after.annotations) = m + 1
                       /\ SubSeq(after.events, 1, n) = before.events
                       /\ SubSeq(after.annotations, 1, m) = before.annotations
                       /\ after.events[n + 1].item_no = after.annotations[m + 1].item_no
                       /\ after.annotations[m + 1].bbox = rect
                       /\ \A other \in DOMAIN results \ {id} :
                             other \in DOMAIN results' /\ results'[other] = results[other]
                       /\ selections' = selections
              ELSE /\ results' = results
                   /\ selections' = With(selections, id, rect)]_vars

\* A rectangle has been committed on the analysed screenshot: it has a third
\* event and a third annotation, and its earlier region is still pending.
C25_Witness ==
    /\ activeScreenshotId = 1
    /\ Len(results[1].events) = 3
    /\ Len(results[1].annotations) = 3
    /\ results[1].annotations[3].label = "click_custom"
    /\ results[1].events[3].event_action = "click_custom"
    /\ 1 \in DOMAIN selections
    /\ selections[1] = EarlierRegion

\* C26: the mode of a gesture, panning or tracking a rectangle, is decided
\* at pointer-down and kept until the pointer-up of that gesture: while a
\* gesture is under way, pressing or releasing Space, toggling the hand tool
\* and pressing a further pointer button neither switch the gesture between
\* panning and selecting nor end it.
C26_ModeHeldDuringGesture ==
    [][((isPanning \/ isSelecting)
        /\ (\/ handleKeyDown
            \/ handleKeyUp
            \/ toggleHandTool
            \/ \E pos \in Pointers, button \in {0, 1} : handleMouseDown(pos, button)))
          => /\ isPanning' = isPanning
             /\ isSelecting' = isSelecting]_vars

\* The badge the interactive overlay draws for annotation ann, in the pixels
\* of the image: the box has a 4px border inside its top edge boxTop, and the
\* badge, 32px high, is placed from the inner side of that border.
overlayBadge(ann, imageSize) ==
    LET boxTop == Mul(ann.bbox.y, Whole(imageSize.height))
        inner == Add(boxTop, Whole(4))
        isItemOne == ann.item_no = 1
        top == IF isItemOne THEN inner ELSE Sub(inner, Whole(32))
    IN  [boxTop |-> boxTop, border |-> inner,
         top |-> top, bottom |-> Add(top, Whole(32))]

\* The badge downloadAnnotatedImage fills for annotation ann on a canvas of
\* the image's natural size; the box is stroked 8 wide around its edge.
pngBadge(ann, canvas) ==
    LET y == Mul(ann.bbox.y, Whole(canvas.height))
        rounded == (6 * canvas.width + 100) \div 200
        fs == IF rounded > 48 THEN rounded ELSE 48
        top == IF ann.item_no = 1 THEN y ELSE Sub(Sub(y, Whole(fs)), Whole(16))
    IN  [boxTop |-> y, border |-> Add(y, Whole(4)),
         top |-> top, bottom |-> Add(top, Whole(fs + 16))]

\* exportFigmaSVG with a fault: the tag is above the box for every item.
svgBadgeAlwaysAbove(ann, imageSize) ==
    LET by == Mul(ann.bbox.y, Whole(imageSize.height))
        tagRectY == Sub(by, Whole(28))
    IN  [boxTop |-> by, border |-> Add(by, Num(3, 2)),
         top |-> tagRectY, bottom |-> Add(tagRectY, Whole(28))]

\* The tag rectangle exportFigmaSVG writes for annotation ann; the box is
\* stroked 3 wide around its edge.
svgBadge(ann, imageSize) ==
    LET by == Mul(ann.bbox.y, Whole(imageSize.height))
        isItemOne == ann.item_no = 1
        tagRectY == IF isItemOne THEN by ELSE Sub(by, Whole(28))
    IN  [boxTop |-> by, border |-> Add(by, Num(3, 2)),
         top |-> tagRectY, bottom |-> Add(tagRectY, Whole(28))]

\* C27: in the overlay, the PNG export and the SVG export alike, the badge
\* of the annotation with item_no 1 has its top edge at or below the top
\* edge of its box, and the badge of any other annotation is above the top
\* edge of its box: it starts above that edge and ends no lower than the
\* border drawn on it.
C27_BadgeSideByItemNo ==
    HasActiveResult =>
        \A i \in DOMAIN currentResult.annotations :
            LET ann == currentResult.annotations[i]
                imageSize == naturalSize(activeScreenshotId)
            IN  \A badge \in {overlayBadge(ann, imageSize),
                               pngBadge(ann, imageSize),
                               svgBadge(ann, imageSize)} :
                    IF ann.item_no = 1
                    THEN ~Lt(badge.top, badge.boxTop)
                    ELSE /\ Lt(badge.top, badge.boxTop)
                         /\ ~Lt(badge.border, badge.bottom)

\* A box drawn by the user carries item_no 1 beside a box with another number.
C27_Witness ==
    /\ HasActiveResult
    /\ \E i, j \in DOMAIN currentResult.annotations :
            /\ currentResult.annotations[i].item_no = 1
            /\ currentResult.annotations[i].label = "click_custom"
            /\ currentResult.annotations[j].item_no # 1

C29_AnnotationNumbersUnique ==
    \A id \in DOMAIN results :
        \A i, j \in DOMAIN results[id].annotations :
            results[id].annotations[i].item_no = results[id].annotations[j].item_no
                => i = j

\* C30: events and annotations stay paired by item_no: an add-row, a drawn
\* annotation or a delete-row on a result in which every event has exactly
\* one annotation of its item_no, and every annotation exactly one event,
\* leaves such a result.
C30_RowsStayPaired ==
    [][LET Count(rows, itemNo) ==
               Cardinality({i \in DOMAIN rows : rows[i].item_no = itemNo})
           Paired(r) ==
               /\ \A i \in DOMAIN r.events :
                      Count(r.annotations, r.events[i].item_no) = 1
               /\ \A i \in DOMAIN r.annotations :
                      Count(r.events, r.annotations[i].item_no) = 1
       IN  (/\ HasActiveResult
            /\ Paired(results[activeScreenshotId])
            /\ \/ handleAddRow
               \/ handleMouseUp
               \/ \E itemNo \in 1..MaxRows : handleDeleteRow(itemNo))
              => Paired(results'[activeScreenshotId])]_vars

\* C31: a text committed in the JSON tab is accepted only if it holds a list
\* of events each of which has its required fields (of the five, the model
\* carries item_no and event_action); any other text is rejected: an error
\* message is set and the stored results stay as they were.
C31_OnlyWellFormedEventsAccepted ==
    [][\A text \in CommittedTexts(currentResult.events), closureHasResult \in BOOLEAN :
          LET wellFormed ==
                  /\ text[1]
                  /\ IsArray(text[2])
                  /\ \A i \in DOMAIN text[2].items :
                         {"item_no", "event_action"} \subseteq DOMAIN text[2].items[i]
          IN  (commitJsonEdit(text[1], text[2], closureHasResult) /\ ~wellFormed)
                 => /\ results' = results
                    /\ jsonError' # "none"]_vars

\* C32: a text committed in the JSON tab that does not parse, or parses to
\* something without an events array, sets the error message and leaves the
\* result of every screenshot, the active one included, as it was.
C32_RejectedEditChangesNothing ==
    [][\A text \in CommittedTexts(currentResult.events), closureHasResult \in BOOLEAN :
          (commitJsonEdit(text[1], text[2], closureHasResult)
             /\ (~text[1] \/ ~IsArray(text[2])))
             => /\ results' = results
                /\ jsonError' = IF text[1]
                                THEN "Invalid JSON structure: missing 'events' array"
                                ELSE "Invalid JSON syntax"]_vars

\* An edit was rejected after the rows of the result had been changed.
C32_Witness ==
    /\ jsonError # "none"
    /\ HasActiveResult
    /\ currentResult.events # AnalyzedResult.events

\* C33: a message of either import format makes a new screenshot only if
\* the text it carries starts with data:image; for any other text no
\* screenshot is added, no file is read, and a notice is shown.
C33_ImportOnlyImages ==
    [][\A payload \in ImportPayloads :
          ((handleFigmaImport(payload) \/ handleFigmaMessage(payload))
             /\ ~(Len(payload) >= 2 /\ SubSeq(payload, 1, 2) = <<"data:", "image">>))
             => /\ screenshots' = screenshots
                /\ reading' = reading
                /\ figmaNotice' # "none"]_vars

\* C34: the ids of the screenshots in the list are unique, whatever was
\* uploaded and deleted.
C34_IdsUnique ==
    \A i, j \in DOMAIN screenshots : screenshots[i] = screenshots[j] => i = j

\* C35: every key of the stores kept per screenshot (view states, regions,
\* results, contexts, selected ids and canceled ids) is the id of a
\* screenshot in the list.
C35_StoresFollowTheList ==
    /\ DOMAIN viewStates \subseteq Range(screenshots)
    /\ DOMAIN selections \subseteq Range(screenshots)
    /\ DOMAIN results \subseteq Range(screenshots)
    /\ DOMAIN screenContexts \subseteq Range(screenshots)
    /\ selectedIds \subseteq Range(screenshots)
    /\ canceledIds \subseteq Range(screenshots)

\* C36: isAnalyzing is true exactly while a loop started by handleAnalyze
\* has not reached its finally block.
C36_RunningIffLoopActive ==
    isAnalyzing <=> \E l \in LoopIds : loops[l].active

\* C37: while a loop is active, analysisController.current is the
\* controller made for that loop, and the finally block of a loop runs
\* with the controller of that loop in analysisController.current.
C37_ControllerBelongsToLoop ==
    /\ [](\A l \in LoopIds : loops[l].active => analysisController = l)
    /\ [][\A l \in LoopIds :
             (loops[l].active /\ ~loops'[l].active) => analysisController = l]_vars

\* C38: a result is stored for a screenshot of the list only by a call that
\* was issued for that screenshot: when the call of a loop settles and
\* changes the result kept under the id of its target, a screenshot with
\* that id being in the list, the target has not been removed from the
\* list since the call was issued.
C38_ResultFromOwnCall ==
    [][\A l \in InFlight :
          \A settlement \in Settlements(CurrentTarget(l)) :
             LET target == CurrentTarget(l)
             IN  (/\ AnalyzerSettles(l, settlement)
                  /\ target \in Range(screenshots)
                  /\ target \in DOMAIN results'
                  /\ (target \in DOMAIN results => results'[target] # results[target]))
                    => target \notin gone[l]]_vars

\* C39: when a loop reaches its end without having been canceled and
\* without a run-level error, each of its targets is completed (has a
\* result) or is marked canceled-or-failed.
C39_EveryTargetHasStatusAtEnd ==
    [][\A l \in LoopIds :
          (Ends(l) /\ ~loops[l].aborted /\ error' = "none")
             => \A target \in Range(loops[l].targets) :
                   target \in canceledIds' \/ target \in DOMAIN results']_vars

\* C40: isPanning and isSelecting are never both true, and after a
\* pointer-up or a pointer-leave both are false.
C40_GestureFlagsExclusive ==
    /\ [](~(isPanning /\ isSelecting))
    /\ [][handleMouseUp => (~isPanning' /\ ~isSelecting')]_vars

====
